---- MODULE Spec2Model ----
(***************************************************************************)
(* Tukan: board derivation, reconciliation, the activity engine, the card   *)
(* operations and the watcher of `tukan start --wait`.                     *)
(*                                                                         *)
(* Strings the code inspects character by character (card and window       *)
(* names) are sequences of one-character strings; identifiers are plain    *)
(* strings.  A Record<string, Card> is a sequence of cards in insertion    *)
(* order (the order Object.values / Object.entries iterate in), each card  *)
(* stored under its own id.  A Map is a function on a finite domain.       *)
(* The board and the activity engine read only some of a card's fields;    *)
(* their stores carry those (id, name, columnId, sessionName, windowId,    *)
(* startedAt, closedAt).  The stores of the card operations carry every    *)
(* field of a Card.  The BoardCard's displayId, command and workingDir are *)
(* left out.                                                               *)
(***************************************************************************)
EXTENDS Integers, Sequences, FiniteSets, TLC

VARIABLES config, tmux, activity, paneHashes, paneContent, now, ticks, columns,
          calls, watch, out, last, observed, created, pending

vars == <<config, tmux, activity, paneHashes, paneContent, now, ticks, columns,
          calls, watch, out, last, observed, created, pending>>

\* the state of the command-line runs: how many store operations were
\* applied, the watcher of `start --wait`, and what it wrote to stdout.
\* With them `observed`, which no program variable holds: the hash poll
\* computed at its latest successful capture of each pane it still polls;
\* `created`, the state of the tmux server next to its windows: how many
\* windows it has created since it started (its next window is @created);
\* and `pending`, the runs of the board's asynchronous handlers that have
\* begun and are waiting for a tmux or git command to return
cliVars == <<calls, watch, out, observed, created, pending>>

(***************************************************************************)
(* Values                                                                  *)
(***************************************************************************)

\* an optional string field that is not set (windowId?, columnId)
undefined == "undefined"

\* BoardCard.windowId of a card without a live window
null == "null"

\* an optional timestamp that is not set (startedAt?, closedAt?)
NoTime == -1

\* JavaScript truthiness of an optional string: undefined and "" are falsy
Truthy(s) == s # undefined /\ s # ""

\* JavaScript truthiness of an optional number: undefined and 0 are falsy
TruthyTime(t) == t # NoTime /\ t # 0

COL_UNASSIGNED == "0"
COL_TODO == "1"
COL_IN_PROGRESS == "2"
COL_REVIEW == "3"
COL_DONE == "4"

\* defaultConfig().columns
DefaultColumns ==
  << [id |-> COL_UNASSIGNED, title |-> "Unassigned"],
     [id |-> COL_TODO, title |-> "Todo"],
     [id |-> COL_IN_PROGRESS, title |-> "In Progress"],
     [id |-> COL_REVIEW, title |-> "Review"],
     [id |-> COL_DONE, title |-> "Done"] >>

IDLE_PROMOTE_MS == 2 * 60 * 1000

\* process.env.TMUX_PANE of the running board
SelfPaneId == "%0"

(***************************************************************************)
(* Sequence helpers                                                        *)
(***************************************************************************)

Range(s) == { s[i] : i \in DOMAIN s }

\* Array.prototype.reverse
Reverse(s) == [ i \in 1..Len(s) |-> s[Len(s) + 1 - i] ]

RECURSIVE Concat(_)
\* the concatenation of a sequence of sequences
Concat(ss) == IF ss = <<>> THEN <<>> ELSE Head(ss) \o Concat(Tail(ss))

\* String.prototype.startsWith for a one-character prefix
startsWith(name, ch) == Len(name) > 0 /\ name[1] = ch

(***************************************************************************)
(* The process tree (TmuxServer): sessions -> windows -> panes             *)
(***************************************************************************)

\* every window of the snapshot with its session, in enumeration order
\* (for session of server.sessions, for win of session.windows)
WindowsOf(server) ==
  Concat([ i \in 1..Len(server.sessions) |->
             [ j \in 1..Len(server.sessions[i].windows) |->
                 [session |-> server.sessions[i],
                  win |-> server.sessions[i].windows[j]] ] ])

\* win.panes.some((p) => p.id === selfPaneId)
HostsPane(win, paneId) == \E k \in 1..Len(win.panes) : win.panes[k].id = paneId

\* selfPaneId && win.panes.some(...): the window the board itself runs in
IsSelfWindow(win, selfPaneId) == Truthy(selfPaneId) /\ HostsPane(win, selfPaneId)

(***************************************************************************)
(* The card store (BoardConfig)                                            *)
(***************************************************************************)

\* config.cards[id] is set
HasCard(cards, id) == \E i \in 1..Len(cards) : cards[i].id = id

\* config.cards[id]
CardAt(cards, id) == cards[CHOOSE i \in 1..Len(cards) : cards[i].id = id]

(***************************************************************************)
(* deriveBoard                                                             *)
(***************************************************************************)

\* windowToCard: the Map built by set() in store order, so the last card
\* carrying a window id is the one the window is indexed to
WindowToCardHas(cards, windowId) ==
  \E i \in 1..Len(cards) : Truthy(cards[i].windowId) /\ cards[i].windowId = windowId

WindowToCardGet(cards, windowId) ==
  LET hits == { i \in 1..Len(cards) :
                  Truthy(cards[i].windowId) /\ cards[i].windowId = windowId }
  IN  cards[CHOOSE i \in hits : \A k \in hits : k <= i]

\* activity?.lastChangeTime != null ? Math.floor((now - lastChangeTime) / 1000) : null
IdleTimeOf(activityMap, windowId, nowMs) ==
  IF windowId \in DOMAIN activityMap
    THEN (nowMs - activityMap[windowId].lastChangeTime) \div 1000
    ELSE -1

\* the BoardCard pushed for one live window
LiveBoardCard(cards, sw, activityMap, nowMs) ==
  LET win == sw.win
      has == win.id \in DOMAIN activityMap
      act == [hasActivity |-> IF has THEN activityMap[win.id].hasActivity ELSE FALSE,
              spinning |-> IF has THEN activityMap[win.id].spinning ELSE FALSE,
              idleTime |-> IdleTimeOf(activityMap, win.id, nowMs)]
  IN  IF WindowToCardHas(cards, win.id)
        THEN LET card == WindowToCardGet(cards, win.id)
             IN  [cardId |-> card.id, windowId |-> win.id,
                  sessionName |-> sw.session.name, name |-> card.name,
                  active |-> win.active, started |-> TRUE, closed |-> FALSE,
                  uncategorized |-> FALSE, hasActivity |-> act.hasActivity,
                  spinning |-> act.spinning, idleTime |-> act.idleTime]
        ELSE [cardId |-> win.id, windowId |-> win.id,
              sessionName |-> sw.session.name, name |-> win.name,
              active |-> win.active, started |-> FALSE, closed |-> FALSE,
              uncategorized |-> TRUE, hasActivity |-> act.hasActivity,
              spinning |-> act.spinning, idleTime |-> act.idleTime]

\* variant: closed is taken from closedAt instead of startedAt
SyntheticBoardCard_FromClosedAt(card) ==
  [cardId |-> card.id, windowId |-> null, sessionName |-> card.sessionName,
   name |-> card.name, active |-> FALSE, started |-> FALSE,
   closed |-> TruthyTime(card.closedAt), uncategorized |-> FALSE,
   hasActivity |-> FALSE, spinning |-> FALSE, idleTime |-> -1]

\* the BoardCard pushed for a card that no live window was indexed to
SyntheticBoardCard(card) ==
  [cardId |-> card.id, windowId |-> null, sessionName |-> card.sessionName,
   name |-> card.name, active |-> FALSE, started |-> FALSE,
   closed |-> TruthyTime(card.startedAt), uncategorized |-> FALSE,
   hasActivity |-> FALSE, spinning |-> FALSE, idleTime |-> -1]

\* variant: the second loop does not skip the cards already seen
BoardCardsOf_NoSeenCheck(server, cfg, selfPaneId, activityMap, nowMs) ==
  LET wins == SelectSeq(WindowsOf(server),
                        LAMBDA sw : ~IsSelfWindow(sw.win, selfPaneId))
      live == [ i \in 1..Len(wins) |->
                  LiveBoardCard(cfg.cards, wins[i], activityMap, nowMs) ]
  IN  live \o [ i \in 1..Len(cfg.cards) |-> SyntheticBoardCard(cfg.cards[i]) ]

\* boardCards after the two loops: live windows, then the cards not seen
BoardCardsOf(server, cfg, selfPaneId, activityMap, nowMs) ==
  LET wins == SelectSeq(WindowsOf(server),
                        LAMBDA sw : ~IsSelfWindow(sw.win, selfPaneId))
      live == [ i \in 1..Len(wins) |->
                  LiveBoardCard(cfg.cards, wins[i], activityMap, nowMs) ]
      seenCardIds == { live[i].cardId : i \in { k \in 1..Len(live) : live[k].started } }
      rest == SelectSeq(cfg.cards, LAMBDA c : c.id \notin seenCardIds)
  IN  live \o [ i \in 1..Len(rest) |-> SyntheticBoardCard(rest[i]) ]

\* config.columns[0]?.id
DefaultColumnId(cfg) == IF Len(cfg.columns) > 0 THEN cfg.columns[1].id ELSE undefined

\* the column id a BoardCard asks for: card?.columnId ?? defaultColumnId
ColIdOf(cfg, bc) ==
  IF bc.uncategorized THEN COL_UNASSIGNED
  ELSE IF HasCard(cfg.cards, bc.cardId)
            /\ CardAt(cfg.cards, bc.cardId).columnId # undefined
         THEN CardAt(cfg.cards, bc.cardId).columnId
         ELSE DefaultColumnId(cfg)

\* variant: no fallback to the first column
BucketOf_NoFallback(cfg, bc) ==
  LET ids == { cfg.columns[i].id : i \in 1..Len(cfg.columns) }
  IN  IF ColIdOf(cfg, bc) \in ids THEN ColIdOf(cfg, bc) ELSE undefined

\* the bucket a BoardCard is pushed to: its own, else the first column's;
\* undefined when columnMap has neither
BucketOf(cfg, bc) ==
  LET ids == { cfg.columns[i].id : i \in 1..Len(cfg.columns) }
  IN  IF ColIdOf(cfg, bc) \in ids THEN ColIdOf(cfg, bc)
      ELSE IF DefaultColumnId(cfg) \in ids THEN DefaultColumnId(cfg)
      ELSE undefined

\* variant: the bucket is returned as filled
ColumnCards_AsFilled(bucket) == bucket

\* the cards of one returned column: (columnMap.get(col.id) ?? []).reverse()
ColumnCards(bucket) == Reverse(bucket)

deriveBoard(server, cfg, selfPaneId, activityMap, nowMs) ==
  LET boardCards == BoardCardsOf(server, cfg, selfPaneId, activityMap, nowMs)
  IN  [ i \in 1..Len(cfg.columns) |->
          [id |-> cfg.columns[i].id,
           title |-> cfg.columns[i].title,
           cards |-> ColumnCards(SelectSeq(boardCards,
                       LAMBDA bc : BucketOf(cfg, bc) = cfg.columns[i].id))] ]

(***************************************************************************)
(* reconcileConfig                                                         *)
(***************************************************************************)

\* windowNames.has(id)
WindowNamesHas(server, id) ==
  \E i \in 1..Len(WindowsOf(server)) : WindowsOf(server)[i].win.id = id

\* windowNames.get(id): the Map keeps the last name set for an id
WindowNamesGet(server, id) ==
  LET ws == WindowsOf(server)
      hits == { i \in 1..Len(ws) : ws[i].win.id = id }
  IN  ws[CHOOSE i \in hits : \A k \in hits : k <= i].win.name

\* variant: stamps every card whose window is gone, closed already or not
NeedsClose_Always(card, server) ==
  Truthy(card.windowId) /\ ~WindowNamesHas(server, card.windowId)

\* the window is gone and the card is not yet marked closed
NeedsClose(card, server) ==
  Truthy(card.windowId) /\ ~WindowNamesHas(server, card.windowId)
    /\ ~TruthyTime(card.closedAt)

\* the window is there and the card is marked closed
NeedsReopen(card, server) ==
  Truthy(card.windowId) /\ WindowNamesHas(server, card.windowId)
    /\ TruthyTime(card.closedAt)

\* the window is there, the card's name is a placeholder and tmux has a name
NeedsName(card, server) ==
  Truthy(card.windowId) /\ WindowNamesHas(server, card.windowId)
    /\ startsWith(card.name, "@")
    /\ Len(WindowNamesGet(server, card.windowId)) > 0

\* variant: a card whose window is back keeps its closedAt
ReconcileCard_NoReopen(card, server, nowMs) ==
  IF NeedsClose(card, server) THEN [card EXCEPT !.closedAt = nowMs]
  ELSE IF NeedsName(card, server)
         THEN [card EXCEPT !.name = WindowNamesGet(server, card.windowId)]
         ELSE card

\* variant: a card whose window is gone also loses its windowId
ReconcileCard_ForgetsWindow(card, server, nowMs) ==
  IF NeedsClose(card, server)
    THEN [card EXCEPT !.closedAt = nowMs, !.windowId = undefined]
  ELSE LET c1 == IF NeedsReopen(card, server)
                   THEN [card EXCEPT !.closedAt = NoTime] ELSE card
       IN  IF NeedsName(card, server)
             THEN [c1 EXCEPT !.name = WindowNamesGet(server, card.windowId)]
             ELSE c1

\* one iteration of the loop over Object.entries(cards)
ReconcileCard(card, server, nowMs) ==
  IF NeedsClose(card, server) THEN [card EXCEPT !.closedAt = nowMs]
  ELSE LET c1 == IF NeedsReopen(card, server)
                   THEN [card EXCEPT !.closedAt = NoTime] ELSE card
       IN  IF NeedsName(card, server)
             THEN [c1 EXCEPT !.name = WindowNamesGet(server, card.windowId)]
             ELSE c1

\* variant: always builds a new store object
ReconcileChanged_Always(cfg, server) == TRUE

\* the `changed` flag: the input object is returned iff it stayed false
ReconcileChanged(cfg, server) ==
  \E i \in 1..Len(cfg.cards) :
     \/ NeedsClose(cfg.cards[i], server)
     \/ NeedsReopen(cfg.cards[i], server)
     \/ NeedsName(cfg.cards[i], server)

\* card.name.startsWith("@") on a card that has a live window and no name:
\* the TypeError reconcileConfig ends with
ReconcileThrows(cfg, server) ==
  \E i \in 1..Len(cfg.cards) :
     /\ Truthy(cfg.cards[i].windowId)
     /\ WindowNamesHas(server, cfg.cards[i].windowId)
     /\ cfg.cards[i].name = <<"undefined">>

\* the returned store; sameRef tells whether it is the input object itself,
\* input is the object passed in once the call is over (the loop writes
\* into the copy `cards` only)
reconcileConfig(cfg, server, nowMs) ==
  IF ~ReconcileChanged(cfg, server)
    THEN [config |-> cfg, sameRef |-> TRUE, input |-> cfg]
    ELSE [config |-> [cfg EXCEPT !.cards =
                        [ i \in 1..Len(cfg.cards) |->
                            ReconcileCard(cfg.cards[i], server, nowMs) ]],
          sameRef |-> FALSE, input |-> cfg]

(***************************************************************************)
(* Activity engine                                                         *)
(***************************************************************************)

\* createHash("sha1").update(content).digest("hex"): a digest of the
\* content, never the content itself; distinct contents, distinct digests
hashContent(content) == <<"sha1", content>>

\* one hash per captured pane
computePaneHashes(paneContents) ==
  [ p \in DOMAIN paneContents |-> hashContent(paneContents[p]) ]

\* variant: a pane seen for the first time counts as changed
detectChangedPanes_CountsNewPanes(prev, next) ==
  { p \in DOMAIN next : p \notin DOMAIN prev \/ prev[p] # next[p] }

\* the panes whose hash existed before and differs now
detectChangedPanes(prev, next) ==
  { p \in DOMAIN next : p \in DOMAIN prev /\ prev[p] # next[p] }

\* the ids of the cards kept, in store order (result.push(cardId))
CardIds(kept) == [ i \in 1..Len(kept) |-> kept[i].id ]

\* variant: promotes an idle card from whatever column it is in
getIdlePromotions_AnyColumn(cards, lastChangeTimes, nowMs, thresholdMs) ==
  CardIds(SelectSeq(cards, LAMBDA card :
    /\ Truthy(card.windowId)
    /\ card.windowId \in DOMAIN lastChangeTimes
    /\ nowMs - lastChangeTimes[card.windowId] >= thresholdMs))

\* variant: the threshold itself does not count as idle yet
getIdlePromotions_StrictlyOlder(cards, lastChangeTimes, nowMs, thresholdMs) ==
  CardIds(SelectSeq(cards, LAMBDA card :
    /\ card.columnId = COL_IN_PROGRESS
    /\ Truthy(card.windowId)
    /\ card.windowId \in DOMAIN lastChangeTimes
    /\ nowMs - lastChangeTimes[card.windowId] > thresholdMs))

\* card ids in In Progress whose windowId has a lastChangeTime at least
\* thresholdMs old
getIdlePromotions(cards, lastChangeTimes, nowMs, thresholdMs) ==
  CardIds(SelectSeq(cards, LAMBDA card :
    /\ card.columnId = COL_IN_PROGRESS
    /\ Truthy(card.windowId)
    /\ card.windowId \in DOMAIN lastChangeTimes
    /\ nowMs - lastChangeTimes[card.windowId] >= thresholdMs))

\* card ids in Review whose windowId is among the changed windows
getReviewDemotions(cards, changedWindowIds) ==
  CardIds(SelectSeq(cards, LAMBDA card :
    /\ card.columnId = COL_REVIEW
    /\ Truthy(card.windowId)
    /\ card.windowId \in changedWindowIds))

\* the windows owning the changed panes
ChangedWindowsOf(changedPanes, paneToWindow) ==
  { paneToWindow[p] : p \in changedPanes \cap DOMAIN paneToWindow }

\* variant: entries carried forward keep their spinning flag
buildActivityMap_KeepsSpinning(changedPanes, paneToWindow, activeWindowId, prevActivity, nowMs) ==
  LET changedWindows == ChangedWindowsOf(changedPanes, paneToWindow)
      allWindows == { paneToWindow[p] : p \in DOMAIN paneToWindow }
      seeded == [ w \in DOMAIN prevActivity \cup allWindows |->
                    IF w \in DOMAIN prevActivity
                      THEN prevActivity[w]
                      ELSE [hasActivity |-> FALSE, lastChangeTime |-> nowMs,
                            spinning |-> FALSE] ]
      updated == [ w \in DOMAIN seeded \cup changedWindows |->
                     IF w \in changedWindows
                       THEN [hasActivity |-> TRUE, lastChangeTime |-> nowMs,
                             spinning |-> TRUE]
                       ELSE seeded[w] ]
  IN  [ w \in DOMAIN updated |->
          IF Truthy(activeWindowId) /\ w = activeWindowId
            THEN [updated[w] EXCEPT !.hasActivity = FALSE, !.spinning = FALSE]
            ELSE updated[w] ]

\* variant: the focused window is treated like any other
buildActivityMap_IgnoresFocus(changedPanes, paneToWindow, activeWindowId, prevActivity, nowMs) ==
  LET changedWindows == ChangedWindowsOf(changedPanes, paneToWindow)
      allWindows == { paneToWindow[p] : p \in DOMAIN paneToWindow }
      seeded == [ w \in DOMAIN prevActivity \cup allWindows |->
                    IF w \in DOMAIN prevActivity
                      THEN [prevActivity[w] EXCEPT !.spinning = FALSE]
                      ELSE [hasActivity |-> FALSE, lastChangeTime |-> nowMs,
                            spinning |-> FALSE] ]
  IN  [ w \in DOMAIN seeded \cup changedWindows |->
          IF w \in changedWindows
            THEN [hasActivity |-> TRUE, lastChangeTime |-> nowMs, spinning |-> TRUE]
            ELSE seeded[w] ]

\* variant: a window seen for the first time is given the epoch as the time
\* of its last change
buildActivityMap_SeedsAtEpoch(changedPanes, paneToWindow, activeWindowId, prevActivity, nowMs) ==
  LET changedWindows == ChangedWindowsOf(changedPanes, paneToWindow)
      allWindows == { paneToWindow[p] : p \in DOMAIN paneToWindow }
      seeded == [ w \in DOMAIN prevActivity \cup allWindows |->
                    IF w \in DOMAIN prevActivity
                      THEN [prevActivity[w] EXCEPT !.spinning = FALSE]
                      ELSE [hasActivity |-> FALSE, lastChangeTime |-> 0,
                            spinning |-> FALSE] ]
      updated == [ w \in DOMAIN seeded \cup changedWindows |->
                     IF w \in changedWindows
                       THEN [hasActivity |-> TRUE, lastChangeTime |-> nowMs,
                             spinning |-> TRUE]
                       ELSE seeded[w] ]
  IN  [ w \in DOMAIN updated |->
          IF Truthy(activeWindowId) /\ w = activeWindowId
            THEN [updated[w] EXCEPT !.hasActivity = FALSE, !.spinning = FALSE]
            ELSE updated[w] ]

\* the per-window activity map after one poll
buildActivityMap(changedPanes, paneToWindow, activeWindowId, prevActivity, nowMs) ==
  LET changedWindows == ChangedWindowsOf(changedPanes, paneToWindow)
      allWindows == { paneToWindow[p] : p \in DOMAIN paneToWindow }
      seeded == [ w \in DOMAIN prevActivity \cup allWindows |->
                    IF w \in DOMAIN prevActivity
                      THEN [prevActivity[w] EXCEPT !.spinning = FALSE]
                      ELSE [hasActivity |-> FALSE, lastChangeTime |-> nowMs,
                            spinning |-> FALSE] ]
      updated == [ w \in DOMAIN seeded \cup changedWindows |->
                     IF w \in changedWindows
                       THEN [hasActivity |-> TRUE, lastChangeTime |-> nowMs,
                             spinning |-> TRUE]
                       ELSE seeded[w] ]
  IN  [ w \in DOMAIN updated |->
          IF Truthy(activeWindowId) /\ w = activeWindowId
            THEN [updated[w] EXCEPT !.hasActivity = FALSE, !.spinning = FALSE]
            ELSE updated[w] ]

\* prevActivity once buildActivityMap is over: every write is a set() on the
\* new Map `result`, of an object literal
PrevActivityAfter(changedPanes, paneToWindow, activeWindowId, prevActivity, nowMs) ==
  prevActivity

\* poll: the panes of every window but the board's own, in enumeration order
PollPaneIds(server, selfPaneId) ==
  LET ws == SelectSeq(WindowsOf(server), LAMBDA sw : ~IsSelfWindow(sw.win, selfPaneId))
  IN  Concat([ i \in 1..Len(ws) |->
                 [ k \in 1..Len(ws[i].win.panes) |-> ws[i].win.panes[k].id ] ])

\* poll: paneToWindow
PaneToWindow(server, selfPaneId) ==
  LET ws == SelectSeq(WindowsOf(server), LAMBDA sw : ~IsSelfWindow(sw.win, selfPaneId))
  IN  [ p \in Range(PollPaneIds(server, selfPaneId)) |->
          ws[CHOOSE i \in 1..Len(ws) : HostsPane(ws[i].win, p)].win.id ]

\* poll: the session the board runs in (the first one hosting its pane)
TukanSessionId(server, selfPaneId) ==
  LET hosts == { i \in 1..Len(server.sessions) :
                   \E j \in 1..Len(server.sessions[i].windows) :
                      HostsPane(server.sessions[i].windows[j], selfPaneId) }
  IN  IF Truthy(selfPaneId) /\ hosts # {}
        THEN server.sessions[CHOOSE i \in hosts : \A k \in hosts : i <= k].id
        ELSE null

\* poll: the active window of the board's session, the board's own excepted
ActiveWindowId(server, selfPaneId) ==
  LET ws == WindowsOf(server)
      hits == { i \in 1..Len(ws) :
                  /\ ~IsSelfWindow(ws[i].win, selfPaneId)
                  /\ ws[i].win.active
                  /\ ws[i].session.id = TukanSessionId(server, selfPaneId) }
  IN  IF hits = {} THEN null
      ELSE ws[CHOOSE i \in hits : \A k \in hits : k <= i].win.id

\* poll: changeTimes, the lastChangeTime of every entry of the activity map
ChangeTimesOf(activityMap) ==
  [ w \in DOMAIN activityMap |-> activityMap[w].lastChangeTime ]

\* poll: promotions are written first, demotions after them
ApplyMoves(cfg, idlePromotions, reviewDemotions) ==
  [cfg EXCEPT !.cards =
     [ i \in 1..Len(cfg.cards) |->
         IF cfg.cards[i].id \in Range(reviewDemotions)
           THEN [cfg.cards[i] EXCEPT !.columnId = COL_IN_PROGRESS]
         ELSE IF cfg.cards[i].id \in Range(idlePromotions)
           THEN [cfg.cards[i] EXCEPT !.columnId = COL_REVIEW]
         ELSE cfg.cards[i] ]]

(***************************************************************************)
(* Card operations (card-ops): lookup                                      *)
(*                                                                         *)
(* Here ids, names and queries are strings the code inspects character by  *)
(* character, so all three are sequences of one-character strings.  The    *)
(* store is a plain object: a key it does not own is still found when      *)
(* Object.prototype has a member of that name.                             *)
(***************************************************************************)

\* a character-wise string field that is not set
undefinedStr == <<"undefined">>

\* String.prototype.toLowerCase, on the letters the model uses
LowerOf(ch) ==
  CASE ch = "F" -> "f"
    [] ch = "I" -> "i"
    [] ch = "X" -> "x"
    [] OTHER -> ch

toLowerCase(str) == [ i \in 1..Len(str) |-> LowerOf(str[i]) ]

\* str.startsWith(prefix)
startsWithStr(str, prefix) ==
  Len(prefix) <= Len(str) /\ SubSeq(str, 1, Len(prefix)) = prefix

\* str.includes(part)
includes(str, part) ==
  \E k \in 0..(Len(str) - Len(part)) : SubSeq(str, k + 1, k + Len(part)) = part

\* str.slice(0, 8)
slice8(str) == SubSeq(str, 1, IF Len(str) < 8 THEN Len(str) ELSE 8)

\* the members every plain object inherits; "constructor" stands for them
ObjectPrototypeKeys == { <<"c", "o", "n", "s", "t", "r", "u", "c", "t", "o", "r">> }

\* a Card object without any own property: what spreading a function gives
BlankCard(key) ==
  [id |-> key, name |-> undefinedStr, description |-> undefined,
   acceptanceCriteria |-> undefined, columnId |-> undefined,
   sessionName |-> undefined, dir |-> undefined, command |-> undefined,
   customCommand |-> undefined, worktree |-> undefined,
   worktreePath |-> undefined, windowId |-> undefined,
   createdAt |-> NoTime, startedAt |-> NoTime, closedAt |-> NoTime]

\* what cards[key] evaluates to: the card stored under the key, else the
\* member of Object.prototype of that name, else undefined
LookupKind(cards, key) ==
  IF HasCard(cards, key) THEN "own"
  ELSE IF key \in ObjectPrototypeKeys THEN "inherited"
  ELSE "none"

\* cards[key] as the caller reads it: a function's name is "Object", its
\* other Card fields are undefined
LookupValue(cards, key) ==
  IF HasCard(cards, key) THEN CardAt(cards, key)
  ELSE [BlankCard(key) EXCEPT !.name = <<"O", "b", "j", "e", "c", "t">>]

\* { ...cards[key] }: the own enumerable properties only
SpreadCard(cards, key) ==
  IF HasCard(cards, key) THEN CardAt(cards, key) ELSE BlankCard(key)

\* the entries of the store as matches
MatchesOf(cards) == [ i \in 1..Len(cards) |-> [id |-> cards[i].id, card |-> cards[i]] ]

\* findCards: tier 2, ids starting with the query (queries of 4 characters up)
PrefixMatches(cards, query) ==
  SelectSeq(MatchesOf(cards),
            LAMBDA m : startsWithStr(m.id, query) /\ Len(query) >= 4)

\* findCards: tier 3, names equal to the query, case ignored
ExactNameMatches(cards, query) ==
  SelectSeq(MatchesOf(cards),
            LAMBDA m : toLowerCase(m.card.name) = toLowerCase(query))

\* findCards: tier 4, the other names containing the query, case ignored
PartialNameMatches(cards, query) ==
  SelectSeq(MatchesOf(cards),
            LAMBDA m : /\ toLowerCase(m.card.name) # toLowerCase(query)
                       /\ includes(toLowerCase(m.card.name), toLowerCase(query)))

\* findCards: the matches, or the TypeError of card.name.toLowerCase() when
\* the name loop meets a card without a name
findCards(cards, query) ==
  IF LookupKind(cards, query) # "none"
    THEN [threw |-> FALSE,
          matches |-> << [id |-> query, card |-> LookupValue(cards, query)] >>]
  ELSE IF Len(PrefixMatches(cards, query)) > 0
    THEN [threw |-> FALSE, matches |-> PrefixMatches(cards, query)]
  ELSE IF \E i \in 1..Len(cards) : cards[i].name = undefinedStr
    THEN [threw |-> TRUE, matches |-> <<>>]
  ELSE IF Len(ExactNameMatches(cards, query)) > 0
    THEN [threw |-> FALSE, matches |-> ExactNameMatches(cards, query)]
  ELSE [threw |-> FALSE, matches |-> PartialNameMatches(cards, query)]

\* resolveCard: the tagged result (the error text as its parts)
resolveCard(cards, query) ==
  LET found == findCards(cards, query)
      matches == found.matches
  IN  IF found.threw THEN [threw |-> TRUE]
      ELSE IF Len(matches) = 0
        THEN [threw |-> FALSE, ok |-> FALSE, error |-> "No card found matching",
              query |-> query, names |-> <<>>]
      ELSE IF Len(matches) > 1
        THEN [threw |-> FALSE, ok |-> FALSE, error |-> "Ambiguous match for",
              query |-> query,
              names |-> [ i \in 1..Len(matches) |->
                            <<slice8(matches[i].id), matches[i].card.name>> ]]
      ELSE [threw |-> FALSE, ok |-> TRUE, id |-> matches[1].id, card |-> matches[1].card]

(***************************************************************************)
(* Card operations (card-ops): lifecycle                                   *)
(*                                                                         *)
(* Every operation yields the store it returns (config), whether that is   *)
(* the object it was given (sameRef), and the value of the object it was   *)
(* given once the call is over (input): the code writes only into the      *)
(* object literals and spread copies it has just made.                     *)
(***************************************************************************)

\* { ...config, cards: { ...config.cards, [key]: card } }: a key the store
\* owns keeps its place, a new key goes last
PutCard(cfg, key, card) ==
  [cfg EXCEPT !.cards =
     IF HasCard(cfg.cards, key)
       THEN [ i \in 1..Len(cfg.cards) |->
                IF cfg.cards[i].id = key THEN card ELSE cfg.cards[i] ]
       ELSE Append(cfg.cards, card)]

\* createCard: a new record in Todo, not started (randomUUID() is the id)
createCard(id, opts, nowMs) ==
  [id |-> id, name |-> opts.name,
   description |-> IF opts.description = undefined THEN "" ELSE opts.description,
   acceptanceCriteria |-> "", columnId |-> COL_TODO,
   sessionName |-> opts.sessionName, dir |-> "cwd",
   command |-> IF opts.command = undefined THEN "shell" ELSE opts.command,
   customCommand |-> opts.customCommand,
   worktree |-> "false", worktreePath |-> undefined,
   windowId |-> undefined, createdAt |-> nowMs,
   startedAt |-> NoTime, closedAt |-> NoTime]

addCardToConfig(cfg, card) ==
  [config |-> PutCard(cfg, card.id, card), sameRef |-> FALSE, input |-> cfg]

\* variant: the closedAt of an earlier run survives the restart
markCardStarted_KeepsClosedAt(cfg, cardId, windowId, nowMs) ==
  IF LookupKind(cfg.cards, cardId) = "none"
    THEN [config |-> cfg, sameRef |-> TRUE, input |-> cfg]
    ELSE [config |-> PutCard(cfg, cardId,
                       [SpreadCard(cfg.cards, cardId) EXCEPT
                          !.windowId = windowId, !.startedAt = nowMs,
                          !.columnId = COL_IN_PROGRESS]),
          sameRef |-> FALSE, input |-> cfg]

markCardStarted(cfg, cardId, windowId, nowMs) ==
  IF LookupKind(cfg.cards, cardId) = "none"
    THEN [config |-> cfg, sameRef |-> TRUE, input |-> cfg]
    ELSE [config |-> PutCard(cfg, cardId,
                       [SpreadCard(cfg.cards, cardId) EXCEPT
                          !.windowId = windowId, !.startedAt = nowMs,
                          !.columnId = COL_IN_PROGRESS, !.closedAt = NoTime]),
          sameRef |-> FALSE, input |-> cfg]

\* variant: stopping sends the card back to Todo
markCardStopped_ToTodo(cfg, cardId, nowMs) ==
  IF LookupKind(cfg.cards, cardId) = "none"
    THEN [config |-> cfg, sameRef |-> TRUE, input |-> cfg]
    ELSE [config |-> PutCard(cfg, cardId,
                       [SpreadCard(cfg.cards, cardId) EXCEPT
                          !.windowId = undefined, !.closedAt = nowMs,
                          !.columnId = COL_TODO]),
          sameRef |-> FALSE, input |-> cfg]

markCardStopped(cfg, cardId, nowMs) ==
  IF LookupKind(cfg.cards, cardId) = "none"
    THEN [config |-> cfg, sameRef |-> TRUE, input |-> cfg]
    ELSE [config |-> PutCard(cfg, cardId,
                       [SpreadCard(cfg.cards, cardId) EXCEPT
                          !.windowId = undefined, !.closedAt = nowMs]),
          sameRef |-> FALSE, input |-> cfg]

\* variant: the window id is kept on a resolved card
resolveCardInConfig_KeepsWindow(cfg, cardId, nowMs) ==
  IF LookupKind(cfg.cards, cardId) = "none"
    THEN [config |-> cfg, sameRef |-> TRUE, input |-> cfg]
    ELSE [config |-> PutCard(cfg, cardId,
                       [SpreadCard(cfg.cards, cardId) EXCEPT
                          !.columnId = COL_DONE, !.closedAt = nowMs]),
          sameRef |-> FALSE, input |-> cfg]

resolveCardInConfig(cfg, cardId, nowMs) ==
  IF LookupKind(cfg.cards, cardId) = "none"
    THEN [config |-> cfg, sameRef |-> TRUE, input |-> cfg]
    ELSE [config |-> PutCard(cfg, cardId,
                       [SpreadCard(cfg.cards, cardId) EXCEPT
                          !.columnId = COL_DONE, !.windowId = undefined,
                          !.closedAt = nowMs]),
          sameRef |-> FALSE, input |-> cfg]

\* an EditCardFields object with no field present
NoFields ==
  [name |-> undefinedStr, description |-> undefined,
   acceptanceCriteria |-> undefined, dir |-> undefined, command |-> undefined,
   customCommand |-> undefined, worktree |-> undefined,
   worktreePath |-> undefined]

\* editCardInConfig: the assignments to `updated`, in the order of the code
EditedCard(card, fields) ==
  LET u1 == IF fields.name # undefinedStr
              THEN [card EXCEPT !.name = fields.name] ELSE card
      u2 == IF fields.description # undefined
              THEN [u1 EXCEPT !.description = fields.description] ELSE u1
      u3 == IF fields.acceptanceCriteria # undefined
              THEN [u2 EXCEPT !.acceptanceCriteria = fields.acceptanceCriteria]
              ELSE u2
      u4 == IF fields.dir # undefined THEN [u3 EXCEPT !.dir = fields.dir] ELSE u3
      u5 == IF fields.command # undefined
              THEN [u4 EXCEPT !.command = fields.command,
                              !.customCommand = fields.customCommand]
              ELSE u4
  IN  IF fields.worktree # undefined
        THEN [u5 EXCEPT !.worktree = fields.worktree,
                        !.worktreePath = IF fields.worktree = "true"
                                           THEN fields.worktreePath ELSE undefined]
        ELSE u5

\* variant: `updated` is the stored card itself, not a copy of it
editCardInConfig_InPlace(cfg, cardId, fields) ==
  IF LookupKind(cfg.cards, cardId) = "none"
    THEN [config |-> cfg, sameRef |-> TRUE, input |-> cfg]
    ELSE LET edited == PutCard(cfg, cardId,
                               EditedCard(SpreadCard(cfg.cards, cardId), fields))
         IN  [config |-> edited, sameRef |-> FALSE, input |-> edited]

\* variant: a description in the input also resets the acceptance criteria
editCardInConfig_ResetsCriteria(cfg, cardId, fields) ==
  IF LookupKind(cfg.cards, cardId) = "none"
    THEN [config |-> cfg, sameRef |-> TRUE, input |-> cfg]
    ELSE LET e == EditedCard(SpreadCard(cfg.cards, cardId), fields)
         IN  [config |-> PutCard(cfg, cardId,
                           IF fields.description # undefined
                             THEN [e EXCEPT !.acceptanceCriteria = ""] ELSE e),
              sameRef |-> FALSE, input |-> cfg]

editCardInConfig(cfg, cardId, fields) ==
  IF LookupKind(cfg.cards, cardId) = "none"
    THEN [config |-> cfg, sameRef |-> TRUE, input |-> cfg]
    ELSE [config |-> PutCard(cfg, cardId,
                       EditedCard(SpreadCard(cfg.cards, cardId), fields)),
          sameRef |-> FALSE, input |-> cfg]

\* variant: h sends the card to the first column, l to the last one
moveCard_ToTheEnd(cfg, cols, cursor, direction, generatedId, nowMs) ==
  LET hasCard == /\ cursor.col + 1 \in 1..Len(cols)
                 /\ cursor.row + 1 \in 1..Len(cols[cursor.col + 1].cards)
      targetColIdx == IF direction = "left"
                        THEN (IF cursor.col = 0 THEN 0 - 1 ELSE 0)
                        ELSE (IF cursor.col = Len(cols) - 1 THEN Len(cols) ELSE Len(cols) - 1)
  IN  IF ~hasCard \/ targetColIdx < 0 \/ targetColIdx >= Len(cols)
        THEN [isNull |-> TRUE, input |-> cfg]
      ELSE
        LET card == cols[cursor.col + 1].cards[cursor.row + 1]
            targetCol == cols[targetColIdx + 1]
            newCursor == [col |-> targetColIdx, row |-> Len(targetCol.cards)]
        IN  IF card.uncategorized
              THEN LET id == IF generatedId # undefinedStr
                               THEN generatedId ELSE card.cardId
                       newCard ==
                         [id |-> id, name |-> card.name, description |-> "",
                          acceptanceCriteria |-> "", columnId |-> targetCol.id,
                          sessionName |-> card.sessionName, dir |-> "cwd",
                          command |-> "shell", customCommand |-> undefined,
                          worktree |-> "false", worktreePath |-> undefined,
                          windowId |-> card.windowId, createdAt |-> nowMs,
                          startedAt |-> NoTime, closedAt |-> NoTime]
                   IN  [isNull |-> FALSE, config |-> PutCard(cfg, id, newCard),
                        cursor |-> newCursor, input |-> cfg]
            ELSE IF ~HasCard(cfg.cards, card.cardId)
              THEN [isNull |-> TRUE, input |-> cfg]
            ELSE [isNull |-> FALSE,
                  config |-> PutCard(cfg, card.cardId,
                               [CardAt(cfg.cards, card.cardId) EXCEPT
                                  !.columnId = targetCol.id]),
                  cursor |-> newCursor, input |-> cfg]

\* moveCard: null, or the new store and cursor.  The card ids of a board
\* come from the store it was derived from or from tmux.
moveCard(cfg, cols, cursor, direction, generatedId, nowMs) ==
  LET hasCard == /\ cursor.col + 1 \in 1..Len(cols)
                 /\ cursor.row + 1 \in 1..Len(cols[cursor.col + 1].cards)
      targetColIdx == IF direction = "left" THEN cursor.col - 1 ELSE cursor.col + 1
  IN  IF ~hasCard \/ targetColIdx < 0 \/ targetColIdx >= Len(cols)
        THEN [isNull |-> TRUE, input |-> cfg]
      ELSE
        LET card == cols[cursor.col + 1].cards[cursor.row + 1]
            targetCol == cols[targetColIdx + 1]
            newCursor == [col |-> targetColIdx, row |-> Len(targetCol.cards)]
        IN  IF card.uncategorized
              THEN LET id == IF generatedId # undefinedStr
                               THEN generatedId ELSE card.cardId
                       newCard ==
                         [id |-> id, name |-> card.name, description |-> "",
                          acceptanceCriteria |-> "", columnId |-> targetCol.id,
                          sessionName |-> card.sessionName, dir |-> "cwd",
                          command |-> "shell", customCommand |-> undefined,
                          worktree |-> "false", worktreePath |-> undefined,
                          windowId |-> card.windowId, createdAt |-> nowMs,
                          startedAt |-> NoTime, closedAt |-> NoTime]
                   IN  [isNull |-> FALSE, config |-> PutCard(cfg, id, newCard),
                        cursor |-> newCursor, input |-> cfg]
            ELSE IF ~HasCard(cfg.cards, card.cardId)
              THEN [isNull |-> TRUE, input |-> cfg]
            ELSE [isNull |-> FALSE,
                  config |-> PutCard(cfg, card.cardId,
                               [CardAt(cfg.cards, card.cardId) EXCEPT
                                  !.columnId = targetCol.id]),
                  cursor |-> newCursor, input |-> cfg]

(***************************************************************************)
(* The environment: what tmux and the persisted store can hand the program *)
(***************************************************************************)

\* Date.now() when the program starts; persisted timestamps are older
Now0 == 2

\* a timestamp written by an earlier run
Earlier == 1

\* window ids of the tmux server; "@0" is the window the board runs in
WindowIds == {"@0", "@1", "@2"}

\* #{window_name} of each window: empty, plain, or itself starting with "@"
WindowNameOf(id) ==
  CASE id = "@0" -> <<>>
    [] id = "@1" -> <<"z">>
    [] OTHER -> <<"@", "w">>

\* the single pane of each window; the board's own pane is SelfPaneId
PaneOf(id) ==
  CASE id = "@0" -> SelfPaneId
    [] id = "@1" -> "%1"
    [] id = "@2" -> "%2"
    [] OTHER -> "%3"

\* sequences over a set without repetition
RECURSIVE Orderings(_)
Orderings(S) ==
  IF S = {} THEN {<<>>}
  ELSE UNION { { <<x>> \o rest : rest \in Orderings(S \ {x}) } : x \in S }

\* what getTmuxState returns for the board's session: no session (tmux
\* failed or the session is gone), or the session with its windows in index
\* order, one pane each, activeId the selected window
SnapshotWith(ids, activeId) ==
  IF ids = <<>> THEN [serverName |-> "", sessions |-> <<>>]
  ELSE [serverName |-> "",
        sessions |-> << [id |-> "$0", name |-> "main",
                         windows |-> [ i \in 1..Len(ids) |->
                                        [id |-> ids[i],
                                         name |-> WindowNameOf(ids[i]),
                                         active |-> (ids[i] = activeId),
                                         panes |-> << [id |-> PaneOf(ids[i])] >>] ]] >>]

\* the snapshot with the first window selected
SnapshotOf(ids) == SnapshotWith(ids, IF ids = <<>> THEN null ELSE ids[1])

\* the snapshots tmux can return: any of the other windows in any order,
\* behind the board's own window when the board runs inside the session
Snapshots ==
  { SnapshotOf(self \o ids) :
      self \in {<<>>, <<"@0">>},
      ids \in UNION { Orderings(S) : S \in SUBSET (WindowIds \ {"@0"}) } }

\* the window ids of a snapshot, in enumeration order
IdsOf(server) == [ i \in 1..Len(WindowsOf(server)) |-> WindowsOf(server)[i].win.id ]

\* a sequence without its i-th element
Without(seq, i) == [ k \in 1..(Len(seq) - 1) |-> IF k < i THEN seq[k] ELSE seq[k + 1] ]

\* what the next getTmuxState can return after `server`: a window was
\* closed, a new window was appended, the windows were re-ordered, or the
\* tmux call failed (no sessions); after a failure, any snapshot
TmuxNext(server) ==
  LET ids == IdsOf(server)
      others == SelectSeq(ids, LAMBDA w : w # "@0")
      self == SelectSeq(ids, LAMBDA w : w = "@0")
  IN  IF ids = <<>> THEN Snapshots
      ELSE { SnapshotOf(<<>>) }
             \cup { SnapshotOf(self \o Without(others, i)) : i \in 1..Len(others) }
             \cup { SnapshotOf(ids \o <<w>>) : w \in (WindowIds \ {"@0"}) \ Range(ids) }
             \cup { SnapshotOf(self \o Reverse(others)) }

\* a card as the store may hold it when it is loaded (any lifecycle state,
\* a stale or missing column, a placeholder name left by the migration of a
\* window assignment)
StoredCards(id) ==
  { c \in [id : {id},
           name : {<<"t">>, <<"@", "1">>},
           columnId : {COL_TODO, COL_IN_PROGRESS, "nonexistent", undefined},
           sessionName : {"main"},
           windowId : {undefined} \cup WindowIds,
           startedAt : {NoTime, Earlier},
           closedAt : {NoTime, Earlier}] :
      /\ startsWith(c.name, "@") =>
            Truthy(c.windowId) /\ c.columnId = COL_IN_PROGRESS /\ c.startedAt = Earlier
      /\ c.columnId \in {"nonexistent", undefined} =>
            c.closedAt = NoTime /\ c.name = <<"t">>
      /\ (c.windowId = undefined /\ c.startedAt # NoTime) => c.closedAt # NoTime }

\* no card, one card, or two: the second one a titled card that was started
\* and whose window is not the board's own
StoredCardLists ==
  LET SecondCards ==
        { c \in StoredCards("c2") :
            /\ c.name = <<"t">>
            /\ c.columnId \in {COL_TODO, COL_IN_PROGRESS}
            /\ c.windowId # "@0"
            /\ c.startedAt = Earlier
            /\ c.closedAt = NoTime }
  IN {<<>>} \cup { <<c>> : c \in StoredCards("c1") }
            \cup { <<c, d>> : c \in StoredCards("c1"), d \in SecondCards }

NoActivity == [ w \in {} |-> [hasActivity |-> FALSE, lastChangeTime |-> 0, spinning |-> FALSE] ]

NoHashes == [ p \in {} |-> "" ]

\* no handler of the board is waiting: no poll, no startCard, no
\* confirmResolve; `begun` counts the runs begun, `storedBy` is the number of
\* the poll whose hashes paneHashesRef holds (0: none), `made` the windows
\* startCard has created, each with the card it was created for
NoPending == [polls |-> <<>>, starts |-> <<>>, resolves |-> <<>>,
              begun |-> 0, storedBy |-> 0, made |-> {}]

\* no `start --wait` is running
NoWatch == [pc |-> "none"]

(***************************************************************************)
(* The board: launch, topology refresh, derivation                         *)
(***************************************************************************)

\* the rendered board, recomputed whenever one of its inputs is replaced:
\* useMemo(() => deriveBoard(tmux, config, selfPaneId, activity), [...])
Render(server, cfg, activityMap, nowMs) ==
  deriveBoard(server, cfg, SelfPaneId, activityMap, nowMs)

Init ==
  /\ config \in { [columns |-> DefaultColumns, cards |-> cs] : cs \in StoredCardLists }
  /\ tmux \in Snapshots
  /\ activity = NoActivity
  /\ paneHashes = NoHashes
  /\ paneContent = [ p \in {} |-> 0 ]
  /\ now = Now0
  /\ ticks = 0
  /\ columns = Render(tmux, config, activity, now)
  /\ calls = 0
  /\ watch = NoWatch
  /\ out = <<>>
  /\ last = [op |-> "init"]
  /\ observed = NoHashes
  /\ created = 0
  /\ pending = NoPending

\* launchTui / loadContext: fetch the process tree, reconcile the loaded store
Launch ==
  \E t \in TmuxNext(tmux) \cup {tmux} :
    LET r == reconcileConfig(config, t, now)
    IN  /\ tmux' = t
        /\ config' = r.config
        /\ columns' = Render(t, r.config, activity, now)
        /\ last' = [op |-> "launch", before |-> config, sameRef |-> r.sameRef, at |-> now]
        /\ UNCHANGED cliVars
        /\ UNCHANGED <<activity, paneHashes, paneContent, now, ticks>>

\* the one-second timer: getTmuxState(...).then(setTmux)
PollTmux ==
  \E t \in TmuxNext(tmux) :
    /\ tmux' = t
    /\ columns' = Render(t, config, activity, now)
    /\ last' = [op |-> "setTmux"]
    /\ UNCHANGED cliVars
    /\ UNCHANGED <<config, activity, paneHashes, paneContent, now, ticks>>

Next == Launch \/ PollTmux

Spec == Init /\ [][Next]_vars

(***************************************************************************)
(* The running board: the clock, pane output, the two timers               *)
(***************************************************************************)

\* how often the clock advances in a run
MaxTicks == 3

\* the time that passes before the k-th advance of the clock, in ms: an
\* instant, then the idle time the README names, then what is left of
\* IDLE_PROMOTE_MS, then an instant again
Gap(k) ==
  CASE k = 1 -> 1
    [] k = 2 -> 30000
    [] k = 3 -> IDLE_PROMOTE_MS - 30001
    [] OTHER -> 1

\* the store of a running board: two started cards, each with its window
RunningCards ==
  { << [id |-> "c1", name |-> <<"t">>, columnId |-> COL_IN_PROGRESS,
        sessionName |-> "main", windowId |-> "@1",
        startedAt |-> Earlier, closedAt |-> NoTime],
       [id |-> "c2", name |-> <<"t">>, columnId |-> col,
        sessionName |-> "main", windowId |-> "@2",
        startedAt |-> Earlier, closedAt |-> NoTime] >> :
      col \in {COL_IN_PROGRESS, COL_REVIEW, COL_TODO} }

\* what the next getTmuxState can return while the board runs in window
\* "@0" and stays selected: one of the other windows was closed (tmux never
\* hands out its id again)
TmuxNextRunning(server) ==
  LET others == SelectSeq(IdsOf(server), LAMBDA w : w # "@0")
  IN  { SnapshotWith(<<"@0">> \o Without(others, i), "@0") : i \in 1..Len(others) }

InitRunning ==
  /\ config \in { [columns |-> DefaultColumns, cards |-> cs] : cs \in RunningCards }
  /\ tmux = SnapshotWith(<<"@0", "@1", "@2">>, "@0")
  /\ activity = NoActivity
  /\ paneHashes = NoHashes
  /\ paneContent = [ p \in {"%1", "%2"} |-> "a" ]
  /\ now = Now0
  /\ ticks = 0
  /\ columns = Render(tmux, config, activity, now)
  /\ calls = 0
  /\ watch = NoWatch
  /\ out = <<>>
  /\ last = [op |-> "init"]
  /\ observed = NoHashes
  /\ created = 0
  /\ pending = NoPending

\* time passes
Tick ==
  /\ ticks < MaxTicks
  /\ now' = now + Gap(ticks + 1)
  /\ ticks' = ticks + 1
  /\ last' = [op |-> "tick"]
  /\ UNCHANGED cliVars
  /\ UNCHANGED <<config, tmux, activity, paneHashes, paneContent, columns>>

\* a program writes to one of the panes, which then shows "a" or "b"
PaneOutput ==
  \E p \in Range(PollPaneIds(tmux, SelfPaneId)) : \E c \in {"a", "b"} \ {paneContent[p]} :
    /\ paneContent' = [paneContent EXCEPT ![p] = c]
    /\ last' = [op |-> "output"]
    /\ UNCHANGED cliVars
    /\ UNCHANGED <<config, tmux, activity, paneHashes, now, ticks, columns>>

\* the one-second timer of the running board
RefreshTmux ==
  \E t \in TmuxNextRunning(tmux) :
    /\ tmux' = t
    /\ columns' = Render(t, config, activity, now)
    /\ last' = [op |-> "setTmux"]
    /\ UNCHANGED cliVars
    /\ UNCHANGED <<config, activity, paneHashes, paneContent, now, ticks>>

\* variant: the board is derived before the transitions of the run are
\* written, and not again after them
PollCapturing_DerivesFirst(captured) ==
  LET paneIds == PollPaneIds(tmux, SelfPaneId)
      paneToWindow == PaneToWindow(tmux, SelfPaneId)
      activeWindowId == ActiveWindowId(tmux, SelfPaneId)
  IN  IF Len(paneIds) = 0
        THEN /\ last' = [op |-> "poll", ran |-> FALSE, before |-> config,
                          prevHashes |-> paneHashes]
             /\ UNCHANGED cliVars
             /\ UNCHANGED <<config, tmux, activity, paneHashes, paneContent,
                            now, ticks, columns>>
        ELSE
          LET contents == [ p \in Range(paneIds) \cap captured |-> paneContent[p] ]
              nextHashes == computePaneHashes(contents)
              changed == detectChangedPanes(paneHashes, nextHashes)
              nextActivity == buildActivityMap(changed, paneToWindow, activeWindowId,
                                               activity, now)
              changedWindowIds == ChangedWindowsOf(changed, paneToWindow)
              changeTimes == ChangeTimesOf(nextActivity)
              idlePromotions == getIdlePromotions(config.cards, changeTimes, now,
                                                  IDLE_PROMOTE_MS)
              reviewDemotions == getReviewDemotions(config.cards, changedWindowIds)
              newConfig == IF Len(idlePromotions) > 0 \/ Len(reviewDemotions) > 0
                             THEN ApplyMoves(config, idlePromotions, reviewDemotions)
                             ELSE config
          IN  /\ paneHashes' = nextHashes
              /\ activity' = nextActivity
              /\ config' = newConfig
              /\ columns' = Render(tmux, config, nextActivity, now)
              /\ last' = [op |-> "poll", ran |-> TRUE, before |-> config,
                          prevHashes |-> paneHashes, changed |-> changed,
                          activeWindowId |-> activeWindowId, seen |-> observed,
                          firstSeen |-> DOMAIN nextActivity \ DOMAIN activity]
              /\ observed' = [ p \in (DOMAIN nextHashes)
                                      \cup (DOMAIN observed \cap Range(paneIds)) |->
                                 IF p \in DOMAIN nextHashes THEN nextHashes[p]
                                                            ELSE observed[p] ]
              /\ UNCHANGED <<calls, watch, out, created, pending>>
              /\ UNCHANGED <<tmux, paneContent, now, ticks>>

\* one run of poll in which capture-pane succeeds for the panes in `captured`
\* and fails for the others (captureAllPaneContents leaves those out of its
\* result); `last` records what the run computed
PollCapturing(captured) ==
  LET paneIds == PollPaneIds(tmux, SelfPaneId)
      paneToWindow == PaneToWindow(tmux, SelfPaneId)
      activeWindowId == ActiveWindowId(tmux, SelfPaneId)
  IN  IF Len(paneIds) = 0
        THEN /\ last' = [op |-> "poll", ran |-> FALSE, before |-> config,
                          prevHashes |-> paneHashes]
             /\ UNCHANGED cliVars
             /\ UNCHANGED <<config, tmux, activity, paneHashes, paneContent,
                            now, ticks, columns>>
        ELSE
          LET contents == [ p \in Range(paneIds) \cap captured |-> paneContent[p] ]
              nextHashes == computePaneHashes(contents)
              changed == detectChangedPanes(paneHashes, nextHashes)
              nextActivity == buildActivityMap(changed, paneToWindow, activeWindowId,
                                               activity, now)
              changedWindowIds == ChangedWindowsOf(changed, paneToWindow)
              changeTimes == ChangeTimesOf(nextActivity)
              idlePromotions == getIdlePromotions(config.cards, changeTimes, now,
                                                  IDLE_PROMOTE_MS)
              reviewDemotions == getReviewDemotions(config.cards, changedWindowIds)
              newConfig == IF Len(idlePromotions) > 0 \/ Len(reviewDemotions) > 0
                             THEN ApplyMoves(config, idlePromotions, reviewDemotions)
                             ELSE config
          IN  /\ paneHashes' = nextHashes
              /\ activity' = nextActivity
              /\ config' = newConfig
              /\ columns' = Render(tmux, newConfig, nextActivity, now)
              /\ last' = [op |-> "poll", ran |-> TRUE, before |-> config,
                          prevHashes |-> paneHashes, changed |-> changed,
                          activeWindowId |-> activeWindowId, seen |-> observed,
                          firstSeen |-> DOMAIN nextActivity \ DOMAIN activity]
              /\ observed' = [ p \in (DOMAIN nextHashes)
                                      \cup (DOMAIN observed \cap Range(paneIds)) |->
                                 IF p \in DOMAIN nextHashes THEN nextHashes[p]
                                                            ELSE observed[p] ]
              /\ UNCHANGED <<calls, watch, out, created, pending>>
              /\ UNCHANGED <<tmux, paneContent, now, ticks>>

\* the three-second timer: one run of poll, every capture succeeding
Poll == PollCapturing(Range(PollPaneIds(tmux, SelfPaneId)))

NextRunning == Tick \/ PaneOutput \/ RefreshTmux \/ Poll

SpecPoll == InitRunning /\ [][NextRunning]_vars

(***************************************************************************)
(* The activity engine of the running board when the user moves between    *)
(* windows and a capture-pane call can fail                                *)
(***************************************************************************)

\* a running board next to one window, "@1", with its started card in In
\* Progress, in Review, or moved back to Todo by the user
InitActivity ==
  /\ config \in { [columns |-> DefaultColumns,
                   cards |-> << [id |-> "c1", name |-> <<"t">>, columnId |-> col,
                                 sessionName |-> "main", windowId |-> "@1",
                                 startedAt |-> Earlier, closedAt |-> NoTime] >>] :
                   col \in {COL_IN_PROGRESS, COL_REVIEW, COL_TODO} }
  /\ tmux = SnapshotWith(<<"@0", "@1">>, "@0")
  /\ activity = NoActivity
  /\ paneHashes = NoHashes
  /\ paneContent = [ p \in {"%1"} |-> "a" ]
  /\ now = Now0
  /\ ticks = 0
  /\ columns = Render(tmux, config, activity, now)
  /\ calls = 0
  /\ watch = NoWatch
  /\ out = <<>>
  /\ last = [op |-> "init"]
  /\ observed = NoHashes
  /\ created = 0
  /\ pending = NoPending

\* the one-second timer when its snapshot differs from the one before: the
\* user selected another window of the session (`active` is on that one),
\* or the tmux call failed and getTmuxState returned no session at all
SetTmux ==
  \E t \in { SnapshotWith(<<"@0", "@1">>, w) : w \in {"@0", "@1"} }
              \cup { SnapshotOf(<<>>) } :
    /\ t # tmux
    /\ tmux' = t
    /\ columns' = Render(t, config, activity, now)
    /\ last' = [op |-> "setTmux"]
    /\ UNCHANGED cliVars
    /\ UNCHANGED <<config, activity, paneHashes, paneContent, now, ticks>>

\* the clock, pane output, the one-second timer, and the three-second timer
\* with any of the capture-pane calls of a run failing
NextActivity ==
  \/ Tick
  \/ PaneOutput
  \/ SetTmux
  \/ \E captured \in SUBSET Range(PollPaneIds(tmux, SelfPaneId)) : PollCapturing(captured)

SpecActivity == InitActivity /\ [][NextActivity]_vars

(***************************************************************************)
(* The card operations as the command line and the board apply them        *)
(***************************************************************************)

\* how many store operations a run applies
MaxCalls == 2

\* card ids: two UUIDs sharing their first eight characters, one apart
CardId(k) == <<"a", "a", "a", "a", "b", "b", "b", "b", k>>

NewCardId == <<"c", "c", "c", "c", "d", "d", "d", "d", "3">>

\* an id no store of the model holds
MissingId == <<"n", "o", "p", "e">>

ConstructorKey == <<"c", "o", "n", "s", "t", "r", "u", "c", "t", "o", "r">>

\* card names: one that differs from a query by case only, one that merely
\* contains it, one that reads like the start of an id
CardNames == { <<"F", "i", "x">>, <<"f", "i", "x", "2">>, <<"a", "a", "a", "a">> }

\* what a user types to name a card
Queries ==
  { CardId("1"), <<"a", "a", "a", "a">>, <<"a", "a", "a">>, <<"F", "I", "X">>,
    <<"i", "x">>, MissingId, ConstructorKey }

\* the ids the lifecycle operations are called with
CardIdInputs == { CardId("1"), MissingId, ConstructorKey }

\* a card as `tukan add <name>` creates it
AddedCard(id, name, nowMs) ==
  createCard(id, [name |-> name, sessionName |-> "main", description |-> undefined,
                  command |-> undefined, customCommand |-> undefined], nowMs)

\* the stores a run starts from: up to two cards, added earlier
CardStores ==
  { [columns |-> DefaultColumns, cards |-> cs] :
      cs \in {<<>>}
             \cup { <<AddedCard(CardId("1"), n, Earlier)>> : n \in CardNames }
             \cup { <<AddedCard(CardId("1"), n, Earlier),
                      AddedCard(CardId("2"), m, Earlier)>> :
                      n \in CardNames, m \in CardNames } }

\* the window ids `tukan start` can get from tmux new-window: a window that
\* is still there when the store is reconciled, and one that is gone by then
StartedWindowIds == {"@1", "@2"}

\* the field sets `tukan edit` is called with
EditInputs ==
  { [NoFields EXCEPT !.name = <<"f", "i", "x", "2">>],
    [NoFields EXCEPT !.description = "d2"],
    [NoFields EXCEPT !.acceptanceCriteria = "ac2", !.dir = "dir2"],
    [NoFields EXCEPT !.command = "custom", !.customCommand = "vim"],
    [NoFields EXCEPT !.command = "custom"],
    [NoFields EXCEPT !.command = "claude"],
    [NoFields EXCEPT !.customCommand = "emacs"],
    [NoFields EXCEPT !.worktree = "true", !.worktreePath = "wt"],
    [NoFields EXCEPT !.worktree = "true"],
    [NoFields EXCEPT !.worktree = "false", !.worktreePath = "wt"],
    [NoFields EXCEPT !.worktreePath = "wt2"] }

\* the edits applied: every field set to the first card, one to the others
EditCalls ==
  { <<CardId("1"), f>> : f \in EditInputs }
    \cup { <<id, [NoFields EXCEPT !.description = "d2"]>> :
             id \in {MissingId, ConstructorKey} }

\* tmux while the card operations run: the board's own window and window @1
CardsTmux == SnapshotWith(<<"@0", "@1">>, "@0")

InitCards ==
  /\ config \in CardStores
  /\ tmux = CardsTmux
  /\ activity = NoActivity
  /\ paneHashes = NoHashes
  /\ paneContent = [ p \in {} |-> 0 ]
  /\ now = Now0
  /\ ticks = 0
  /\ columns = Render(tmux, config, activity, now)
  /\ calls = 0
  /\ watch = NoWatch
  /\ out = <<>>
  /\ last = [op |-> "init"]
  /\ observed = NoHashes
  /\ created = 0
  /\ pending = NoPending

\* what every store operation leaves alone
CardsFrame == UNCHANGED <<tmux, paneHashes, paneContent, ticks, watch, out, observed,
                        created, pending>>

\* a store operation returned: the caller keeps the result, the board is
\* rendered from it, the clock has moved on by the next call
Returned(op, key, arg, r) ==
  /\ config' = r.config
  /\ columns' = Render(tmux, r.config, activity, now)
  /\ calls' = calls + 1
  /\ now' = now + 1
  /\ last' = [op |-> op, key |-> key, arg |-> arg, before |-> config,
              at |-> now, sameRef |-> r.sameRef, input |-> r.input]
  /\ UNCHANGED activity
  /\ CardsFrame

\* tukan add
AddCard ==
  /\ calls < MaxCalls
  /\ ~HasCard(config.cards, NewCardId)
  /\ Returned("add", NewCardId, "",
              addCardToConfig(config, AddedCard(NewCardId, <<"F", "i", "x">>, now)))

\* tukan start
MarkStarted ==
  \E id \in CardIdInputs : \E w \in StartedWindowIds :
    /\ calls < MaxCalls
    /\ Returned("start", id, w, markCardStarted(config, id, w, now))

\* tukan stop
MarkStopped ==
  \E id \in CardIdInputs :
    /\ calls < MaxCalls
    /\ Returned("stop", id, "", markCardStopped(config, id, now))

\* tukan resolve
Resolve ==
  \E id \in CardIdInputs :
    /\ calls < MaxCalls
    /\ Returned("resolve", id, "", resolveCardInConfig(config, id, now))

\* tukan edit
Edit ==
  \E call \in EditCalls :
    /\ calls < MaxCalls
    /\ Returned("edit", call[1], call[2], editCardInConfig(config, call[1], call[2]))

\* the board's h / l keys, with the cursor on the first row of a column
Move ==
  \E cursor \in { [col |-> c, row |-> 0] : c \in 0..4 } : \E direction \in {"left", "right"} :
    LET r == moveCard(config, columns, cursor, direction, NewCardId, now)
    IN  /\ calls < MaxCalls
        /\ config' = IF r.isNull THEN config ELSE r.config
        /\ columns' = Render(tmux, config', activity, now)
        /\ calls' = calls + 1
        /\ now' = now + 1
        /\ last' = [op |-> "move", key |-> cursor, arg |-> direction,
                    cols |-> columns, before |-> config, at |-> now,
                    sameRef |-> r.isNull, input |-> r.input,
                    cursor |-> IF r.isNull THEN cursor ELSE r.cursor]
        /\ UNCHANGED activity
        /\ CardsFrame

\* loadContext: the store is reconciled with tmux, or the command ends with
\* the TypeError
Reconcile ==
  /\ calls < MaxCalls
  /\ IF ReconcileThrows(config, tmux)
       THEN /\ last' = [op |-> "reconcile threw", before |-> config]
            /\ calls' = calls + 1
            /\ UNCHANGED <<config, columns, now, activity>>
            /\ CardsFrame
       ELSE Returned("reconcile", <<>>, "", reconcileConfig(config, tmux, now))

\* one poll of the board: the activity map is rebuilt
BuildActivity ==
  \E changed \in SUBSET {"%1"} :
    LET paneToWindow == PaneToWindow(tmux, SelfPaneId)
        activeWindowId == ActiveWindowId(tmux, SelfPaneId)
        next == buildActivityMap(changed, paneToWindow, activeWindowId, activity, now)
    IN  /\ calls < MaxCalls
        /\ activity' = next
        /\ columns' = Render(tmux, config, next, now)
        /\ calls' = calls + 1
        /\ now' = now + 1
        /\ last' = [op |-> "activity", key |-> changed, before |-> activity,
                    at |-> now, sameRef |-> FALSE,
                    input |-> PrevActivityAfter(changed, paneToWindow,
                                                activeWindowId, activity, now)]
        /\ UNCHANGED config
        /\ CardsFrame

NextCards ==
  \/ AddCard
  \/ MarkStarted
  \/ MarkStopped
  \/ Resolve
  \/ Edit
  \/ Move
  \/ Reconcile
  \/ BuildActivity

SpecCards == InitCards /\ [][NextCards]_vars

(***************************************************************************)
(* Card lookup: queries typed on the command line                          *)
(***************************************************************************)

\* loadContextForCard: a query is resolved against the store
Find ==
  \E query \in Queries :
    /\ last' = [op |-> "find", key |-> query, before |-> config,
                found |-> findCards(config.cards, query),
                result |-> resolveCard(config.cards, query)]
    /\ UNCHANGED <<config, columns, calls, now, activity>>
    /\ CardsFrame

\* tukan stop <card>: the store is loaded and reconciled, the query is
\* resolved, the card is marked stopped and the store is saved
StopCommand ==
  \E query \in Queries :
    LET ctx == reconcileConfig(config, tmux, now).config
        resolved == resolveCard(ctx.cards, query)
        stopped == IF ~resolved.threw /\ resolved.ok
                     THEN markCardStopped(ctx, resolved.id, now).config
                     ELSE config
    IN  /\ calls < MaxCalls
        /\ ~ReconcileThrows(config, tmux)
        /\ config' = stopped
        /\ columns' = Render(tmux, stopped, activity, now)
        /\ calls' = calls + 1
        /\ now' = now + 1
        /\ last' = [op |-> "stop command", key |-> query, before |-> config,
                    result |-> resolved]
        /\ UNCHANGED activity
        /\ CardsFrame

NextLookup == Find \/ StopCommand

SpecLookup == InitCards /\ [][NextLookup]_vars

(***************************************************************************)
(* tukan refresh after the board has exited.  The session file holds the   *)
(* store and what the board saved of its activity (lastChangeTimes, pane   *)
(* hashes): `activity` and `paneHashes` stand for the file's copy.  The    *)
(* panes are silent.                                                       *)
(***************************************************************************)

\* tukan refresh: the store is loaded and reconciled, the idle cards are
\* promoted by the lastChangeTimes of the session file, and the file is
\* written again with the store and the working directory alone.
\* getReviewDemotionsByTime is not part of the sources at hand: any of the
\* cards in Review that have a windowId may come back from it.  `calls`
\* counts the runs (modulo MaxCalls + 1).
RefreshCommand ==
  LET ctx == reconcileConfig(config, tmux, now).config
      idlePromotions == getIdlePromotions(ctx.cards, ChangeTimesOf(activity), now,
                                          IDLE_PROMOTE_MS)
      inReview == { i \in 1..Len(ctx.cards) :
                      ctx.cards[i].columnId = COL_REVIEW /\ Truthy(ctx.cards[i].windowId) }
  IN  \E demoted \in SUBSET inReview :
        LET reviewDemotions == CardIds(SelectSeq(ctx.cards, LAMBDA card :
                                 \E i \in demoted : ctx.cards[i].id = card.id))
        IN  /\ ~ReconcileThrows(config, tmux)
            /\ config' = IF Len(idlePromotions) > 0 \/ Len(reviewDemotions) > 0
                            THEN ApplyMoves(ctx, idlePromotions, reviewDemotions)
                            ELSE ctx
            /\ activity' = NoActivity
            /\ paneHashes' = NoHashes
            /\ columns' = Render(tmux, config', activity', now)
            /\ calls' = (calls + 1) % (MaxCalls + 1)
            /\ last' = [op |-> "refresh", before |-> config, at |-> now,
                        lastChangeTimes |-> ChangeTimesOf(activity),
                        activeWindows |-> { w \in DOMAIN activity :
                                              activity[w].hasActivity },
                        prevHashes |-> paneHashes]
            /\ UNCHANGED <<tmux, paneContent, now, ticks, watch, out, observed, created,
                           pending>>

\* the board may have run before, long enough to save the baseline of its
\* first poll; from then on the clock, windows closing, and refresh runs
NextRefresh ==
  \/ last.op = "init" /\ Poll
  \/ Tick
  \/ RefreshTmux
  \/ RefreshCommand

\* time passes and `tukan refresh` keeps being run (by hand, by cron)
SpecRefreshFair ==
  InitRunning /\ [][NextRefresh]_vars /\ WF_vars(Tick) /\ WF_vars(RefreshCommand)

\* the board of one card running and exiting, with `tukan refresh` run in
\* between: every step of the running board, and a run of refresh
NextBoardAndRefresh == Tick \/ PaneOutput \/ SetTmux \/ Poll \/ RefreshCommand

SpecBoardAndRefresh == InitActivity /\ [][NextBoardAndRefresh]_vars

(***************************************************************************)
(* The commands that start and resolve cards, next to a tmux server that   *)
(* numbers its windows from @0 on, never hands out an id twice while it    *)
(* runs, and starts from @0 again when it is restarted.  `out` is what the *)
(* latest command wrote to the console.                                    *)
(***************************************************************************)

\* a store of two cards created by `tukan add`, the first with or without
\* --worktree; the session has the one window the user works in
InitCommands ==
  /\ config \in { [columns |-> DefaultColumns,
                   cards |-> << [AddedCard(CardId("1"), <<"F", "i", "x">>, Earlier)
                                   EXCEPT !.worktree = wt],
                                AddedCard(CardId("2"), <<"f", "i", "x", "2">>, Earlier) >>] :
                   wt \in {"true", "false"} }
  /\ tmux = SnapshotWith(<<"@0">>, "@0")
  /\ created = 1
  /\ pending = NoPending
  /\ activity = NoActivity
  /\ paneHashes = NoHashes
  /\ paneContent = [ p \in {} |-> 0 ]
  /\ now = Now0
  /\ ticks = 0
  /\ columns = Render(tmux, config, activity, now)
  /\ calls = 0
  /\ watch = NoWatch
  /\ out = <<>>
  /\ last = [op |-> "init"]
  /\ observed = NoHashes

\* what a command or the board leaves alone

\* tukan start <card>: the store is loaded and reconciled, a card that has a
\* windowId is refused, otherwise tmux creates the window and the card is
\* marked started with the id tmux printed
StartCommand ==
  \E k \in {"1", "2"} :
    LET ctx == reconcileConfig(config, tmux, now).config
        resolved == resolveCard(ctx.cards, CardId(k))
        newWindowId == <<"@0", "@1", "@2">>[created + 1]
        refused == Truthy(resolved.card.windowId)
    IN  /\ calls < MaxCalls
        /\ created < Cardinality(WindowIds)
        /\ config' = IF refused THEN config
                      ELSE markCardStarted(ctx, resolved.id, newWindowId, now).config
        /\ tmux' = IF refused THEN tmux
                    ELSE SnapshotWith(IdsOf(tmux) \o <<newWindowId>>, "@0")
        /\ created' = IF refused THEN created ELSE created + 1
        /\ UNCHANGED pending
        /\ out' = IF refused THEN <<"error: already started">> ELSE <<"Started">>
        /\ columns' = Render(tmux', config', activity, now)
        /\ calls' = calls + 1
        /\ now' = now + 1
        /\ last' = [op |-> "start command", key |-> CardId(k), before |-> config,
                    at |-> now, refused |-> refused]
        /\ UNCHANGED <<activity, paneHashes, paneContent, ticks, watch, observed>>

\* variant: a failing external command ends the command before the store is
\* written
ResolveWith_GivesUp(cli, k, force, merge, status, killFails, cleanupFails) ==
  LET ctx == IF cli THEN reconcileConfig(config, tmux, now).config ELSE config
      card == resolveCard(ctx.cards, CardId(k)).card
      shouldMerge == merge /\ card.worktree = "true"
      dirty == shouldMerge /\ status = "dirty"
      refused == dirty /\ (~cli \/ ~force)
      live == card.windowId \in Range(IdsOf(tmux))
      killed == IF cli THEN Truthy(card.windowId) ELSE live
      failed == (IF shouldMerge /\ status = "fails" THEN {"git status"} ELSE {})
                  \cup (IF killed /\ (killFails \/ ~live) THEN {"kill-window"} ELSE {})
                  \cup (IF shouldMerge /\ cleanupFails THEN {"worktree cleanup"} ELSE {})
      gaveUp == refused \/ failed # {}
      lines == (IF dirty THEN <<"Warning: resolving with uncommitted worktree changes">>
                         ELSE <<>>)
                 \o (IF ~shouldMerge THEN <<>>
                      ELSE IF cleanupFails THEN <<"Warning: worktree cleanup failed">>
                      ELSE <<"Merged branch and removed worktree">>)
                 \o <<"Resolved">>
  IN  /\ calls < MaxCalls
      /\ config' = IF gaveUp THEN config
                    ELSE resolveCardInConfig(ctx, CardId(k), now).config
      /\ tmux' = IF refused \/ "kill-window" \in failed \/ ~live THEN tmux
                  ELSE SnapshotWith(SelectSeq(IdsOf(tmux), LAMBDA w : w # card.windowId),
                                    "@0")
      /\ out' = IF ~cli THEN <<>>
                 ELSE IF refused THEN <<"error: worktree has uncommitted changes">>
                 ELSE lines
      /\ columns' = Render(tmux', config', activity, now)
      /\ calls' = calls + 1
      /\ now' = now + 1
      /\ last' = [op |-> "resolve", cli |-> cli, key |-> CardId(k), before |-> config,
                  at |-> now, refused |-> refused, failed |-> IF refused THEN {} ELSE failed]
      /\ UNCHANGED <<created, pending>>
      /\ UNCHANGED <<activity, paneHashes, paneContent, ticks, watch, observed>>

\* resolving the k-th card, by `tukan resolve <card>` (reconciled store,
\* console output) or by confirming the board's resolve dialog.  merge: the
\* worktree is to be merged and removed (no --no-merge; the dialog's
\* choice); status: what `git status --porcelain` yields; killFails and
\* cleanupFails: whether kill-window and the worktree removal and merge
\* fail.  The command kills the window the card names, and kill-window
\* fails for a window that is not there; the board kills the window only if
\* it is live.
ResolveWith(cli, k, force, merge, status, killFails, cleanupFails) ==
  LET ctx == IF cli THEN reconcileConfig(config, tmux, now).config ELSE config
      card == resolveCard(ctx.cards, CardId(k)).card
      shouldMerge == merge /\ card.worktree = "true"
      dirty == shouldMerge /\ status = "dirty"
      refused == dirty /\ (~cli \/ ~force)
      live == card.windowId \in Range(IdsOf(tmux))
      killed == IF cli THEN Truthy(card.windowId) ELSE live
      failed == (IF shouldMerge /\ status = "fails" THEN {"git status"} ELSE {})
                  \cup (IF killed /\ (killFails \/ ~live) THEN {"kill-window"} ELSE {})
                  \cup (IF shouldMerge /\ cleanupFails THEN {"worktree cleanup"} ELSE {})
      lines == (IF dirty THEN <<"Warning: resolving with uncommitted worktree changes">>
                         ELSE <<>>)
                 \o (IF ~shouldMerge THEN <<>>
                      ELSE IF cleanupFails THEN <<"Warning: worktree cleanup failed">>
                      ELSE <<"Merged branch and removed worktree">>)
                 \o <<"Resolved">>
  IN  /\ calls < MaxCalls
      /\ config' = IF refused THEN config
                    ELSE resolveCardInConfig(ctx, CardId(k), now).config
      /\ tmux' = IF refused \/ "kill-window" \in failed \/ ~live THEN tmux
                  ELSE SnapshotWith(SelectSeq(IdsOf(tmux), LAMBDA w : w # card.windowId),
                                    "@0")
      /\ out' = IF ~cli THEN <<>>
                 ELSE IF refused THEN <<"error: worktree has uncommitted changes">>
                 ELSE lines
      /\ columns' = Render(tmux', config', activity, now)
      /\ calls' = calls + 1
      /\ now' = now + 1
      /\ last' = [op |-> "resolve", cli |-> cli, key |-> CardId(k), before |-> config,
                  at |-> now, refused |-> refused, failed |-> IF refused THEN {} ELSE failed]
      /\ UNCHANGED <<created, pending>>
      /\ UNCHANGED <<activity, paneHashes, paneContent, ticks, watch, observed>>

\* tukan resolve <card> [--force] [--no-merge]
ResolveCommand ==
  \E k \in {"1", "2"}, force \in BOOLEAN, merge \in BOOLEAN,
     status \in {"clean", "dirty", "fails"}, killFails \in BOOLEAN, cleanupFails \in BOOLEAN :
    ResolveWith(TRUE, k, force, merge, status, killFails, cleanupFails)

\* the board's resolve dialog, confirmed
ConfirmResolve ==
  \E k \in {"1", "2"}, merge \in BOOLEAN,
     status \in {"clean", "dirty", "fails"}, killFails \in BOOLEAN, cleanupFails \in BOOLEAN :
    ResolveWith(FALSE, k, FALSE, merge, status, killFails, cleanupFails)

\* a window other than the user's is closed by the program running in it
WindowExits ==
  \E w \in Range(IdsOf(tmux)) \ {"@0"} :
    /\ tmux' = SnapshotWith(SelectSeq(IdsOf(tmux), LAMBDA v : v # w), "@0")
    /\ columns' = Render(tmux', config, activity, now)
    /\ last' = [op |-> "window exits"]
    /\ UNCHANGED <<config, calls, now, out, created, pending>>
    /\ UNCHANGED <<activity, paneHashes, paneContent, ticks, watch, observed>>

\* the tmux server ends (kill-server, a reboot) and the user opens the
\* session again: its only window is @0 of the new server
ServerRestarts ==
  /\ created > 1
  /\ tmux' = SnapshotWith(<<"@0">>, "@0")
  /\ created' = 1
  /\ UNCHANGED pending
  /\ columns' = Render(tmux', config, activity, now)
  /\ last' = [op |-> "server restarts"]
  /\ UNCHANGED <<config, calls, now, out>>
  /\ UNCHANGED <<activity, paneHashes, paneContent, ticks, watch, observed>>

NextCommands ==
  StartCommand \/ ResolveCommand \/ ConfirmResolve \/ WindowExits \/ ServerRestarts

SpecCommands == InitCommands /\ [][NextCommands]_vars

(***************************************************************************)
(* The handlers of the running board interleaved at their awaits: poll     *)
(* waits for capture-pane, startCard for new-window, confirmResolve (with  *)
(* a worktree to merge) for git.  Each is a step that begins the run and   *)
(* a step that continues it when the command has returned; between the     *)
(* two, timers and keys start other runs.                                  *)
(***************************************************************************)

\* how many runs of the handlers begin
MaxBegun == 3

\* a board with an unstarted card c1 and a started card c2 on window "@1",
\* in In Progress or in Review; the server has created "@0" and "@1"
InitAsync ==
  /\ config \in { [columns |-> DefaultColumns,
                   cards |-> << [id |-> "c1", name |-> <<"t">>, columnId |-> COL_TODO,
                                 sessionName |-> "main", windowId |-> undefined,
                                 startedAt |-> NoTime, closedAt |-> NoTime],
                                [id |-> "c2", name |-> <<"t">>, columnId |-> col,
                                 sessionName |-> "main", windowId |-> "@1",
                                 startedAt |-> Earlier, closedAt |-> NoTime] >>] :
                   col \in {COL_IN_PROGRESS, COL_REVIEW} }
  /\ tmux = SnapshotWith(<<"@0", "@1">>, "@0")
  /\ created = 2
  /\ pending = NoPending
  /\ activity = NoActivity
  /\ paneHashes = NoHashes
  /\ paneContent = [ p \in {"%1", "%2", "%3"} |-> "a" ]
  /\ now = Now0
  /\ ticks = 0
  /\ columns = Render(tmux, config, activity, now)
  /\ calls = 0
  /\ watch = NoWatch
  /\ out = <<>>
  /\ last = [op |-> "init"]
  /\ observed = NoHashes

\* the three-second timer fires: poll reads the snapshot and calls
\* captureAllPaneContents, which reads the panes; a run before it may still
\* be waiting
PollStart ==
  LET paneIds == PollPaneIds(tmux, SelfPaneId)
  IN  /\ pending.begun < MaxBegun
      /\ Len(pending.polls) < 2
      /\ Len(paneIds) > 0
      /\ pending' = [pending EXCEPT
                       !.begun = @ + 1,
                       !.polls = Append(@,
                          [seq |-> pending.begun + 1,
                           paneToWindow |-> PaneToWindow(tmux, SelfPaneId),
                           activeWindowId |-> ActiveWindowId(tmux, SelfPaneId),
                           contents |-> [ p \in Range(paneIds) |-> paneContent[p] ]])]
      /\ last' = [op |-> "poll start"]
      /\ UNCHANGED <<config, tmux, activity, paneHashes, paneContent, now, ticks,
                     columns, calls, watch, out, observed, created>>

\* the captures of a waiting poll have returned: the rest of poll, run
\* against the refs as they are now.  saveState reads activityRef, which is
\* assigned while App renders: `flushed` tells whether setActivity has
\* rendered before saveState runs (React flushes a state update made after
\* an await at once under a legacy root, later under a concurrent one)
PollFinish ==
  \E i \in 1..Len(pending.polls) : \E flushed \in BOOLEAN :
    LET run == pending.polls[i]
        nextHashes == computePaneHashes(run.contents)
        changed == detectChangedPanes(paneHashes, nextHashes)
        nextActivity == buildActivityMap(changed, run.paneToWindow, run.activeWindowId,
                                         activity, now)
        hadNoHashes == DOMAIN paneHashes = {}
        changedWindowIds == ChangedWindowsOf(changed, run.paneToWindow)
        idlePromotions == getIdlePromotions(config.cards, ChangeTimesOf(nextActivity),
                                            now, IDLE_PROMOTE_MS)
        reviewDemotions == getReviewDemotions(config.cards, changedWindowIds)
        moves == Len(idlePromotions) > 0 \/ Len(reviewDemotions) > 0
        newConfig == IF moves THEN ApplyMoves(config, idlePromotions, reviewDemotions)
                              ELSE config
        activityRef == IF flushed THEN nextActivity ELSE activity
    IN  /\ paneHashes' = nextHashes
        /\ activity' = nextActivity
        /\ config' = newConfig
        /\ columns' = Render(tmux, newConfig, nextActivity, now)
        /\ pending' = [pending EXCEPT !.polls = Without(@, i), !.storedBy = run.seq]
        /\ last' = [op |-> "poll finish", seq |-> run.seq,
                    prevStoredBy |-> pending.storedBy, before |-> config,
                    saved |-> [written |-> changed # {}
                                             \/ (hadNoHashes /\ DOMAIN nextHashes # {})
                                             \/ moves,
                               lastChangeTimes |-> ChangeTimesOf(activityRef),
                               activeWindows |-> { w \in DOMAIN activityRef :
                                                     activityRef[w].hasActivity },
                               paneHashes |-> nextHashes]]
        /\ UNCHANGED <<tmux, paneContent, now, ticks, calls, watch, out, observed,
                       created>>

\* key s (or y in the confirm-start modal) on a card the board shows without
\* a window: startCard begins with the card as the store has it and waits
\* for tmux to create the window
StartBegin ==
  \E c \in 1..Len(columns) : \E r \in 1..Len(columns[c].cards) :
    LET bc == columns[c].cards[r]
    IN  /\ pending.begun < MaxBegun
        /\ Len(pending.starts) < 2
        /\ ~bc.uncategorized
        /\ bc.windowId = null
        /\ HasCard(config.cards, bc.cardId)
        /\ pending' = [pending EXCEPT
                         !.begun = @ + 1,
                         !.starts = Append(@, [card |-> CardAt(config.cards, bc.cardId)])]
        /\ last' = [op |-> "start begin", key |-> bc.cardId]
        /\ UNCHANGED <<config, tmux, activity, paneHashes, paneContent, now, ticks,
                       columns, calls, watch, out, observed, created>>

\* new-window has returned to a waiting startCard: the card it began with,
\* now with the new window, is put into the store as it is now
StartFinish ==
  \E i \in 1..Len(pending.starts) :
    LET card == pending.starts[i].card
        newWindowId == <<"@0", "@1", "@2", "@3">>[created + 1]
        updatedCard == [card EXCEPT !.windowId = newWindowId, !.startedAt = now,
                                    !.columnId = COL_IN_PROGRESS, !.closedAt = NoTime]
        newConfig == [config EXCEPT !.cards =
                        [ j \in 1..Len(config.cards) |->
                            IF config.cards[j].id = card.id THEN updatedCard
                                                            ELSE config.cards[j] ]]
        newTmux == SnapshotWith(IdsOf(tmux) \o <<newWindowId>>, "@0")
    IN  /\ created < 4
        /\ config' = newConfig
        /\ tmux' = newTmux
        /\ created' = created + 1
        /\ columns' = Render(newTmux, newConfig, activity, now)
        /\ pending' = [pending EXCEPT
                         !.starts = Without(@, i),
                         !.made = @ \cup {[card |-> card.id, window |-> newWindowId]}]
        /\ last' = [op |-> "start finish", key |-> card.id, before |-> config,
                    refused |-> FALSE]
        /\ UNCHANGED <<activity, paneHashes, paneContent, now, ticks, calls, watch, out,
                       observed>>

\* y in the confirm-resolve modal of a card with a worktree to merge:
\* confirmResolve takes the store and the card from configRef and waits for
\* git status
ResolveBegin ==
  \E c \in 1..Len(columns) : \E r \in 1..Len(columns[c].cards) :
    LET bc == columns[c].cards[r]
    IN  /\ pending.begun < MaxBegun
        /\ Len(pending.resolves) < 1
        /\ ~bc.uncategorized
        /\ HasCard(config.cards, bc.cardId)
        /\ pending' = [pending EXCEPT
                         !.begun = @ + 1,
                         !.resolves = Append(@, [cfg |-> config, key |-> bc.cardId,
                                                 windowId |-> bc.windowId])]
        /\ last' = [op |-> "resolve begin", key |-> bc.cardId]
        /\ UNCHANGED <<config, tmux, activity, paneHashes, paneContent, now, ticks,
                       columns, calls, watch, out, observed, created>>

\* git has returned to the waiting confirmResolve: with uncommitted changes
\* it only changes the modal; otherwise it kills the card's window, removes
\* and merges the worktree, and writes the store it took when it began with
\* the card in Done
ResolveFinish ==
  \E dirty \in BOOLEAN :
    LET run == pending.resolves[1]
        newConfig == [run.cfg EXCEPT !.cards =
                        [ j \in 1..Len(run.cfg.cards) |->
                            IF run.cfg.cards[j].id = run.key
                              THEN [run.cfg.cards[j] EXCEPT !.columnId = COL_DONE,
                                                            !.windowId = undefined,
                                                            !.closedAt = now]
                              ELSE run.cfg.cards[j] ]]
        newTmux == IF run.windowId = null THEN tmux
                   ELSE SnapshotWith(SelectSeq(IdsOf(tmux), LAMBDA w : w # run.windowId),
                                     "@0")
    IN  /\ Len(pending.resolves) > 0
        /\ config' = IF dirty THEN config ELSE newConfig
        /\ tmux' = IF dirty THEN tmux ELSE newTmux
        /\ columns' = Render(tmux', config', activity, now)
        /\ pending' = [pending EXCEPT !.resolves = <<>>]
        /\ last' = [op |-> "resolve finish", key |-> run.key, before |-> config,
                    refused |-> dirty]
        /\ UNCHANGED <<activity, paneHashes, paneContent, now, ticks, calls, watch, out,
                       observed, created>>

\* pane output, and the handlers beginning and continuing in any order
NextAsync ==
  \/ PaneOutput
  \/ PollStart
  \/ PollFinish
  \/ StartBegin
  \/ StartFinish
  \/ ResolveBegin
  \/ ResolveFinish

SpecAsync == InitAsync /\ [][NextAsync]_vars

(***************************************************************************)
(* tukan start --wait: the watcher of a started card's pane                *)
(*                                                                         *)
(* A captured pane is the sequence of its lines.  stdout is the sequence   *)
(* of what console.log wrote: the NDJSON records of --json (their          *)
(* timestamp left out), lines of text otherwise.  The watcher's state      *)
(* carries three records of its past: the panes captured so far, how many  *)
(* captures were started with the flag set, and where the watcher stood    *)
(* when the flag was set.                                                  *)
(***************************************************************************)

\* how many captures a watch makes before the model stops following it
MaxPolls == 4

\* what capture-pane can print: text, the same text above a blank line,
\* other text
RawPanes == { <<"a">>, <<"a", " ">>, <<"b">> }

RECURSIVE stripTrailingBlanks(_)
\* stripTrailingBlanks: the lines without the blank ones at the end
\* (a line is blank when line.trim() === "")
stripTrailingBlanks(lines) ==
  IF Len(lines) > 0 /\ lines[Len(lines)] \in {"", " "}
    THEN stripTrailingBlanks(SubSeq(lines, 1, Len(lines) - 1))
    ELSE lines

\* the card and the window being watched
WatchedCardId == CardId("1")

WatchedWindowId == "@1"

\* the records of the stream
StartRecord ==
  [type |-> "start", cardId |-> WatchedCardId, windowId |-> WatchedWindowId,
   name |-> <<"F", "i", "x">>]

SnapshotRecord(content) == [type |-> "snapshot", content |-> content]

ClosedRecord(exitReason) ==
  [type |-> "closed", cardId |-> WatchedCardId, windowId |-> WatchedWindowId,
   exitReason |-> exitReason]

\* a line of plain output
TextLine(text) == [type |-> "text", text |-> text]

\* variant: every capture is written out
SnapshotDue_Always(prevHash, raw) == TRUE

\* hash !== prevHash
SnapshotDue(prevHash, raw) == hashContent(raw) # prevHash

\* variant: the loop does not look at the flag
LoopContinues_Always(w) == TRUE

\* while (!aborted)
LoopContinues(w) == ~w.aborted

\* the watched window is still there
WatchedAlive == WindowNamesHas(tmux, WatchedWindowId)

\* the store once `tukan start` has marked the card started
InitWatch ==
  /\ config = markCardStarted(
                [columns |-> DefaultColumns,
                 cards |-> <<AddedCard(WatchedCardId, <<"F", "i", "x">>, Earlier)>>],
                WatchedCardId, WatchedWindowId, Now0).config
  /\ tmux = CardsTmux
  /\ activity = NoActivity
  /\ paneHashes = NoHashes
  /\ paneContent \in [ {PaneOf(WatchedWindowId)} -> RawPanes ]
  /\ now = Now0
  /\ ticks = 0
  /\ columns = Render(tmux, config, activity, now)
  /\ calls = 0
  /\ watch = NoWatch
  /\ out = <<>>
  /\ last = [op |-> "init"]
  /\ observed = NoHashes
  /\ created = 0
  /\ pending = NoPending

\* what the watcher leaves alone
WatchFrame == UNCHANGED <<config, activity, paneHashes, now, ticks, columns, calls,
                        observed, created, pending>>

\* tukan start --wait [--json], from the start confirmation on: without
\* --json the confirmation line is printed; watchCardPane installs the
\* signal handlers, writes the start record under --json and waits 300 ms
StartWatch ==
  \E json \in BOOLEAN :
    /\ watch.pc = "none"
    \* prevHash starts as the empty string, which is no digest
    /\ watch' = [pc |-> "delay", json |-> json, prevHash |-> <<>>,
                 emittedSnapshot |-> FALSE, aborted |-> FALSE,
                 captures |-> <<>>, lateCaptures |-> 0, abortedIn |-> "none"]
    /\ out' = IF json THEN <<StartRecord>> ELSE <<TextLine("Started")>>
    /\ last' = [op |-> "watch"]
    /\ UNCHANGED <<tmux, paneContent>>
    /\ WatchFrame

\* SIGINT / SIGTERM: onSignal
Signal ==
  /\ watch.pc \in {"delay", "capturing", "sleeping"}
  /\ ~watch.aborted
  /\ watch' = [watch EXCEPT !.aborted = TRUE, !.abortedIn = watch.pc]
  /\ last' = [op |-> "signal"]
  /\ UNCHANGED <<tmux, paneContent, out>>
  /\ WatchFrame

\* a timer ends (the 300 ms delay or the POLL_MS sleep) and the loop
\* condition is tested: the next capture is started, or the loop is left and
\* the closed record is written under --json
TimerFires ==
  /\ watch.pc \in {"delay", "sleeping"}
  /\ IF LoopContinues(watch)
       THEN /\ Len(watch.captures) < MaxPolls
            /\ watch' = [watch EXCEPT
                           !.pc = "capturing",
                           !.lateCaptures = IF watch.aborted THEN @ + 1 ELSE @]
            /\ out' = out
       ELSE /\ watch' = [watch EXCEPT !.pc = "done"]
            /\ out' = IF watch.json THEN Append(out, ClosedRecord("interrupted"))
                                    ELSE out
  /\ last' = [op |-> "timer"]
  /\ UNCHANGED <<tmux, paneContent>>
  /\ WatchFrame

\* tmux capture-pane returns the pane: a snapshot is written when its hash
\* differs from the previous one, then the watcher sleeps
CaptureSucceeds ==
  LET raw == paneContent[PaneOf(WatchedWindowId)]
      due == SnapshotDue(watch.prevHash, raw)
      content == stripTrailingBlanks(raw)
  IN  /\ watch.pc = "capturing"
      /\ WatchedAlive
      /\ watch' = [watch EXCEPT
                     !.pc = "sleeping",
                     !.captures = Append(@, raw),
                     !.prevHash = IF due THEN hashContent(raw) ELSE @,
                     !.emittedSnapshot = IF due /\ ~watch.json THEN TRUE ELSE @]
      /\ out' = IF ~due THEN out
                ELSE IF watch.json THEN Append(out, SnapshotRecord(content))
                ELSE IF watch.emittedSnapshot
                  THEN out \o <<TextLine("---"), TextLine(content)>>
                  ELSE Append(out, TextLine(content))
      /\ last' = [op |-> "capture"]
      /\ UNCHANGED <<tmux, paneContent>>
      /\ WatchFrame

\* tmux capture-pane fails, the window being gone: the watcher reports the
\* window closed and returns
CaptureFails ==
  /\ watch.pc = "capturing"
  /\ ~WatchedAlive
  /\ watch' = [watch EXCEPT !.pc = "done"]
  /\ out' = Append(out, IF watch.json THEN ClosedRecord("window_closed")
                                      ELSE TextLine("--- closed ---"))
  /\ last' = [op |-> "capture failed"]
  /\ UNCHANGED <<tmux, paneContent>>
  /\ WatchFrame

\* the program in the watched pane writes
WatchedPaneOutput ==
  \E raw \in RawPanes \ {paneContent[PaneOf(WatchedWindowId)]} :
    /\ watch.pc \in {"delay", "capturing", "sleeping"}
    /\ WatchedAlive
    /\ paneContent' = [paneContent EXCEPT ![PaneOf(WatchedWindowId)] = raw]
    /\ last' = [op |-> "output"]
    /\ UNCHANGED <<tmux, watch, out>>
    /\ WatchFrame

\* the watched window is closed
WindowCloses ==
  /\ watch.pc \in {"delay", "capturing", "sleeping"}
  /\ WatchedAlive
  /\ tmux' = SnapshotWith(<<"@0">>, "@0")
  /\ last' = [op |-> "window closed"]
  /\ UNCHANGED <<paneContent, watch, out>>
  /\ WatchFrame

NextWatch ==
  \/ StartWatch
  \/ Signal
  \/ TimerFires
  \/ CaptureSucceeds
  \/ CaptureFails
  \/ WatchedPaneOutput
  \/ WindowCloses

SpecWatch == InitWatch /\ [][NextWatch]_vars

\* timers fire and tmux calls return
SpecWatchFair ==
  /\ SpecWatch
  /\ WF_vars(TimerFires)
  /\ WF_vars(CaptureSucceeds \/ CaptureFails)

(***************************************************************************)
(* Board derivation: what every rendered board satisfies                   *)
(***************************************************************************)

\* every BoardCard on the board, column after column
AllBoardCards == Concat([ i \in 1..Len(columns) |-> columns[i].cards ])

\* the live windows other than the one hosting the board, in enumeration order
OtherWindowIds ==
  LET ws == SelectSeq(WindowsOf(tmux), LAMBDA sw : ~HostsPane(sw.win, SelfPaneId))
  IN  [ i \in 1..Len(ws) |-> ws[i].win.id ]

\* every live window id, the board's own window included
LiveWindowIds == { WindowsOf(tmux)[i].win.id : i \in 1..Len(WindowsOf(tmux)) }

\* how many BoardCards stand for the window w / for the card id
ShownForWindow(w) ==
  Cardinality({ k \in 1..Len(AllBoardCards) : AllBoardCards[k].windowId = w })

ShownForCard(id) ==
  Cardinality({ k \in 1..Len(AllBoardCards) :
                  AllBoardCards[k].cardId = id /\ ~AllBoardCards[k].uncategorized })

\* the position in the store of the card a live window stands for: a card
\* matches the live window it references, and when several cards reference
\* the same window only the last of them in store order is matched to it
MatchedCardIndexes ==
  { i \in 1..Len(config.cards) :
      /\ Truthy(config.cards[i].windowId)
      /\ config.cards[i].windowId \in Range(OtherWindowIds)
      /\ \A k \in 1..Len(config.cards) :
           config.cards[k].windowId = config.cards[i].windowId => k <= i }

\* C1: the board holds one BoardCard per live window (the board's own window
\* excluded) plus one per card with no matching live window, so its size is
\* the sum of the two counts; every such window is shown exactly once and
\* every card exactly once.  (A card matches the live window it references;
\* of several cards referencing one window only one is matched to it.)
C1_NoDataLoss ==
  /\ Len(AllBoardCards) =
       Len(OtherWindowIds) + (Len(config.cards) - Cardinality(MatchedCardIndexes))
  /\ \A w \in Range(OtherWindowIds) : ShownForWindow(w) = 1
  /\ \A i \in 1..Len(config.cards) : ShownForCard(config.cards[i].id) = 1

\* a board showing a carded window, an uncategorized window and a closed
\* card at once, with the board's own window in the tree
C1_Witness ==
  /\ last.op # "init"
  /\ \E k \in 1..Len(WindowsOf(tmux)) : HostsPane(WindowsOf(tmux)[k].win, SelfPaneId)
  /\ \E k \in 1..Len(AllBoardCards) : AllBoardCards[k].started
  /\ \E k \in 1..Len(AllBoardCards) : AllBoardCards[k].uncategorized
  /\ \E k \in 1..Len(AllBoardCards) : AllBoardCards[k].closed
  /\ Len(AllBoardCards) = 3

\* the key a BoardCard is produced under: its window, else its card
KeyOf(bc) == IF bc.windowId # null THEN bc.windowId ELSE bc.cardId

\* the order of production: live windows in enumeration order, then the
\* unmatched cards in store order
ProducedKeys ==
  LET unmatched == SelectSeq([ i \in 1..Len(config.cards) |-> i ],
                             LAMBDA i : i \notin MatchedCardIndexes)
  IN  OtherWindowIds \o [ k \in 1..Len(unmatched) |-> config.cards[unmatched[k]].id ]

\* the keys of one column's cards, top to bottom
ColumnKeys(i) == [ k \in 1..Len(columns[i].cards) |-> KeyOf(columns[i].cards[k]) ]

\* the columns come back in configured order
ColumnsInConfiguredOrder ==
  /\ Len(columns) = Len(config.columns)
  /\ \A i \in 1..Len(columns) :
       columns[i].id = config.columns[i].id /\ columns[i].title = config.columns[i].title

ColumnIds == { config.columns[i].id : i \in 1..Len(config.columns) }

\* where the BoardCard at columns[i] belongs
InItsColumn(i, bc) ==
  IF bc.uncategorized THEN columns[i].id = COL_UNASSIGNED
  ELSE LET card == CardAt(config.cards, bc.cardId)
       IN  IF card.columnId \in ColumnIds
             THEN columns[i].id = card.columnId
             ELSE i = 1

\* C9: every BoardCard sits in exactly one column: an uncategorized window
\* in Unassigned, a card in the column its columnId names, a card whose
\* columnId is missing or names no configured column in the first column;
\* no card is dropped.
C9_Bucketing ==
  /\ \A i \in 1..Len(columns) : \A k \in 1..Len(columns[i].cards) :
       InItsColumn(i, columns[i].cards[k])
  /\ \A w \in Range(OtherWindowIds) :
       Cardinality({ i \in 1..Len(columns) :
                       \E k \in 1..Len(columns[i].cards) :
                          columns[i].cards[k].windowId = w }) = 1
  /\ \A c \in Range(config.cards) :
       Cardinality({ i \in 1..Len(columns) :
                       \E k \in 1..Len(columns[i].cards) :
                          /\ columns[i].cards[k].cardId = c.id
                          /\ ~columns[i].cards[k].uncategorized }) = 1

\* a card with a stale column reference, shown in the first column next to
\* an uncategorized window, while another card sits in its own column
C9_Witness ==
  /\ last.op # "init"
  /\ \E k \in 1..Len(columns[1].cards) :
       /\ ~columns[1].cards[k].uncategorized
       /\ CardAt(config.cards, columns[1].cards[k].cardId).columnId = "nonexistent"
  /\ \E k \in 1..Len(columns[1].cards) : columns[1].cards[k].uncategorized
  /\ Len(columns[3].cards) = 1

\* the card has no window id, or its window id is not live
NotMatchedToLiveWindow(card) ==
  ~Truthy(card.windowId) \/ card.windowId \notin LiveWindowIds

\* C10: every card not matched to a live window appears exactly once, with
\* windowId = null, started = false and closed = (startedAt is set); a store
\* of one unstarted Todo card with an empty process tree gives a board of
\* exactly one BoardCard, in Todo.
C10_UnmatchedCards ==
  /\ \A c \in Range(config.cards) :
       NotMatchedToLiveWindow(c) =>
         /\ ShownForCard(c.id) = 1
         /\ \A k \in 1..Len(AllBoardCards) :
              (AllBoardCards[k].cardId = c.id /\ ~AllBoardCards[k].uncategorized) =>
                 /\ AllBoardCards[k].windowId = null
                 /\ AllBoardCards[k].started = FALSE
                 /\ AllBoardCards[k].closed = (c.startedAt # NoTime)
  /\ ( /\ Len(config.cards) = 1
       /\ config.cards[1].windowId = undefined
       /\ config.cards[1].columnId = COL_TODO
       /\ WindowsOf(tmux) = <<>> )
     => ( /\ Len(AllBoardCards) = 1
          /\ Len(columns[2].cards) = 1
          /\ columns[2].id = COL_TODO
          /\ columns[2].cards[1].started = FALSE
          /\ columns[2].cards[1].windowId = null )

\* a closed card (window gone) and an unstarted card on the same board
C10_Witness ==
  /\ last.op # "init"
  /\ \E c \in Range(config.cards) :
       Truthy(c.windowId) /\ c.windowId \notin LiveWindowIds /\ c.startedAt # NoTime
  /\ \E c \in Range(config.cards) : c.windowId = undefined /\ c.startedAt = NoTime
  /\ Len(AllBoardCards) >= 2

(***************************************************************************)
(* Reconciliation at launch                                                *)
(***************************************************************************)

\* the store handed to the last reconcile, card by card next to its result
ReconciledPairs ==
  { <<last.before.cards[i], config.cards[i]>> : i \in 1..Len(last.before.cards) }

\* C5: a reconcile sets closedAt = now on every card whose windowId is set,
\* is not among the live windows and has no closedAt, and clears closedAt on
\* every card whose windowId is among the live windows; a card whose window
\* went away and came back is thereby first marked closed, then open again.
C5_ClosedAtFollowsLiveness ==
  last.op = "launch" =>
    /\ Len(config.cards) = Len(last.before.cards)
    /\ \A pr \in ReconciledPairs :
         /\ ( /\ pr[1].windowId # undefined
              /\ pr[1].windowId \notin LiveWindowIds
              /\ pr[1].closedAt = NoTime ) => pr[2].closedAt = last.at
         /\ ( /\ pr[1].windowId # undefined
              /\ pr[1].windowId \in LiveWindowIds ) => pr[2].closedAt = NoTime

\* a reconcile re-opening a card that an earlier reconcile of this run had
\* closed (stored timestamps are older than the run), next to a card it closes
C5_Witness ==
  /\ last.op = "launch"
  /\ \E pr \in ReconciledPairs :
       /\ pr[1].closedAt = Now0
       /\ pr[1].windowId \in LiveWindowIds
       /\ pr[2].closedAt = NoTime
  /\ \E pr \in ReconciledPairs :
       /\ pr[1].closedAt = NoTime
       /\ pr[1].windowId # undefined
       /\ pr[1].windowId \notin LiveWindowIds
       /\ pr[2].closedAt = Now0

\* no card of the store handed to the last reconcile needed its closedAt
\* set or cleared
NoClosedAtWork ==
  \A c \in Range(last.before.cards) :
     c.windowId # undefined =>
       IF c.windowId \in LiveWindowIds THEN c.closedAt = NoTime
                                       ELSE c.closedAt # NoTime

\* the name tmux reports for a live window
LiveNameOf(w) ==
  LET ws == WindowsOf(tmux)
  IN  ws[CHOOSE i \in 1..Len(ws) : ws[i].win.id = w].win.name

\* no card with a live window carries a placeholder name (one starting with
\* "@") while tmux reports a non-empty name for the window
NoNameWork ==
  \A c \in Range(last.before.cards) :
     (c.windowId # undefined /\ c.windowId \in LiveWindowIds) =>
        ~(Len(c.name) > 0 /\ c.name[1] = "@" /\ LiveNameOf(c.windowId) # <<>>)

\* C6 as stated: the reconcile returns the input store object itself whenever
\* no card needed its closedAt set or cleared.
C6_SameRefWhenNoClosedAtChange ==
  (last.op = "launch" /\ NoClosedAtWork) => last.sameRef

\* C6 as amended: the reconcile returns the input store object itself
\* whenever no card needed its closedAt set or cleared and no card with a
\* live window had a placeholder name to replace by the window's name.
C6_SameRefWhenNothingToDo ==
  (last.op = "launch" /\ NoClosedAtWork /\ NoNameWork) =>
     (last.sameRef /\ config = last.before)

\* a reconcile with nothing to do on a store holding a card with a live
\* window and a card already marked closed
C6_Witness ==
  /\ last.op = "launch"
  /\ NoClosedAtWork /\ NoNameWork
  /\ \E c \in Range(config.cards) : c.windowId # undefined /\ c.windowId \in LiveWindowIds
  /\ \E c \in Range(config.cards) : c.windowId # undefined /\ c.closedAt # NoTime

\* C7: reconciling the result of a reconcile again, against the same live
\* windows (at a later time), yields a store equal to the first result.
C7_ReconcileIdempotent ==
  last.op = "launch" =>
    LET once == reconcileConfig(last.before, tmux, last.at).config
        twice == reconcileConfig(once, tmux, last.at + 1).config
    IN  once = config /\ twice = once

\* a reconcile that closed one card and renamed another
C7_Witness ==
  /\ last.op = "launch"
  /\ ~last.sameRef
  /\ \E pr \in ReconciledPairs : pr[1].closedAt = NoTime /\ pr[2].closedAt = last.at
  /\ \E pr \in ReconciledPairs : pr[1].name # pr[2].name

(***************************************************************************)
(* The poll: idle promotion and review demotion                            *)
(***************************************************************************)

\* the last step was a poll that got past its early return
PollRan == last.op = "poll" /\ last.ran

\* how long the window w has been without a detected change, as the
\* activity map records it (the map the poll has just built)
IdleFor(w) == now - activity[w].lastChangeTime

\* the cards the last poll moved from In Progress to Review, by position
PromotedByPoll ==
  { i \in 1..Len(config.cards) :
      /\ last.before.cards[i].columnId = COL_IN_PROGRESS
      /\ config.cards[i].columnId = COL_REVIEW }

\* the cards the last poll moved from Review to In Progress, by position
DemotedByPoll ==
  { i \in 1..Len(config.cards) :
      /\ last.before.cards[i].columnId = COL_REVIEW
      /\ config.cards[i].columnId = COL_IN_PROGRESS }

\* C2 as stated: the cards promoted are exactly those in In Progress that
\* have a live window whose idle time is at least the threshold of 120000 ms
\* (exactly 120000 ms qualifies, 119999 ms does not).
C2_PromotesIdleLiveWindows ==
  PollRan =>
    PromotedByPoll =
      { i \in 1..Len(config.cards) :
          /\ last.before.cards[i].columnId = COL_IN_PROGRESS
          /\ last.before.cards[i].windowId \in LiveWindowIds
          /\ last.before.cards[i].windowId \in DOMAIN activity
          /\ IdleFor(last.before.cards[i].windowId) >= 120000 }

\* C2 as amended: the cards promoted are exactly those in In Progress whose
\* windowId is set and has a recorded lastChangeTime at least 120000 ms old,
\* whether or not the window still exists (exactly 120000 ms qualifies,
\* 119999 ms does not).
C2_PromotesIdleWindowIds ==
  PollRan =>
    PromotedByPoll =
      { i \in 1..Len(config.cards) :
          /\ last.before.cards[i].columnId = COL_IN_PROGRESS
          /\ last.before.cards[i].windowId # undefined
          /\ last.before.cards[i].windowId \in DOMAIN activity
          /\ IdleFor(last.before.cards[i].windowId) >= 120000 }

\* a poll promoting a card whose window has been idle for exactly 120000 ms
\* and leaving in In Progress a card whose window has been idle for 119999 ms
C2_Witness ==
  /\ PollRan
  /\ \E i \in PromotedByPoll : IdleFor(config.cards[i].windowId) = 120000
  /\ \E i \in 1..Len(config.cards) :
       /\ last.before.cards[i].columnId = COL_IN_PROGRESS
       /\ config.cards[i].columnId = COL_IN_PROGRESS
       /\ config.cards[i].windowId \in DOMAIN activity
       /\ IdleFor(config.cards[i].windowId) = 119999

\* the windows with a pane whose hash existed before the last poll and
\* differs after it
ChangedThisTick ==
  { w \in Range(OtherWindowIds) :
      \E p \in DOMAIN paneHashes \cap DOMAIN last.prevHashes :
         /\ PaneToWindow(tmux, SelfPaneId)[p] = w
         /\ paneHashes[p] # last.prevHashes[p] }

\* C3: the cards a poll demotes from Review to In Progress are exactly the
\* cards in Review whose windowId is in the changed-window set of that poll,
\* and the store already shows them in In Progress when the poll that
\* detected the change ends; a poll that returns early moves nothing.
C3_DemotesChangedReview ==
  /\ PollRan =>
       DemotedByPoll =
         { i \in 1..Len(config.cards) :
             /\ last.before.cards[i].columnId = COL_REVIEW
             /\ last.before.cards[i].windowId \in ChangedThisTick }
  /\ (last.op = "poll" /\ ~last.ran) => config = last.before

\* a poll demoting a card whose window changed while another card stays in
\* Review, its window unchanged
C3_Witness ==
  /\ PollRan
  /\ DemotedByPoll # {}
  /\ \E i \in 1..Len(config.cards) :
       /\ last.before.cards[i].columnId = COL_REVIEW
       /\ config.cards[i].columnId = COL_REVIEW

\* C4: when a poll ends, every card that was in In Progress and whose live
\* window has shown no output change for 30 seconds is in Review.
C4_PromotedAfterThirtySeconds ==
  PollRan =>
    \A i \in 1..Len(config.cards) :
       ( /\ last.before.cards[i].columnId = COL_IN_PROGRESS
         /\ last.before.cards[i].windowId \in LiveWindowIds
         /\ last.before.cards[i].windowId \in DOMAIN activity
         /\ IdleFor(last.before.cards[i].windowId) >= 30000 )
       => config.cards[i].columnId = COL_REVIEW

(***************************************************************************)
(* Card lookup: what a resolved query yields                               *)
(***************************************************************************)

\* the four tiers as the lookup is described: the card whose id is the
\* query; the cards whose id starts with a query of four characters or
\* more; the cards whose name is the query, case ignored; the cards whose
\* name contains the query, case ignored
TierExactId(cards, query) == SelectSeq(MatchesOf(cards), LAMBDA m : m.id = query)

TierIdPrefix(cards, query) ==
  SelectSeq(MatchesOf(cards),
            LAMBDA m : Len(query) >= 4 /\ startsWithStr(m.id, query))

TierExactName(cards, query) ==
  SelectSeq(MatchesOf(cards),
            LAMBDA m : toLowerCase(m.card.name) = toLowerCase(query))

TierNamePart(cards, query) ==
  SelectSeq(MatchesOf(cards),
            LAMBDA m : includes(toLowerCase(m.card.name), toLowerCase(query)))

\* the candidates of the first tier that has any
FirstTier(cards, query) ==
  IF TierExactId(cards, query) # <<>> THEN TierExactId(cards, query)
  ELSE IF TierIdPrefix(cards, query) # <<>> THEN TierIdPrefix(cards, query)
  ELSE IF TierExactName(cards, query) # <<>> THEN TierExactName(cards, query)
  ELSE TierNamePart(cards, query)

\* C11: findCards returns the candidates of the first non-empty tier among
\* exact id, id prefix (queries of 4 characters or more), exact name and name
\* substring (both case-insensitive); a non-empty prefix tier is returned even
\* when it is ambiguous.
C11_FirstNonEmptyTier ==
  last.op = "find" =>
    /\ ~last.found.threw
    /\ last.found.matches = FirstTier(last.before.cards, last.key)

\* C12: resolveCard never throws and leaves the store as it was; it succeeds
\* with the one candidate exactly when the winning tier holds a single
\* candidate, fails with 'not found' naming the query when no tier holds any,
\* and fails with 'ambiguous' listing the candidates' short ids and names when
\* the winning tier holds several.
C12_ResolveTagged ==
  last.op = "find" =>
    LET tier == FirstTier(last.before.cards, last.key)
        r == last.result
    IN  /\ config = last.before
        /\ ~r.threw
        /\ r.ok <=> Len(tier) = 1
        /\ r.ok => r.id = tier[1].id /\ r.card = tier[1].card
        /\ Len(tier) = 0 =>
             r.error = "No card found matching" /\ r.query = last.key
        /\ Len(tier) > 1 =>
             /\ r.error = "Ambiguous match for" /\ r.query = last.key
             /\ r.names = [ i \in 1..Len(tier) |->
                              <<slice8(tier[i].id), tier[i].card.name>> ]

(***************************************************************************)
(* Card lifecycle: what the store operations yield                         *)
(***************************************************************************)

\* a store operation was applied to a card the store held under that id
AppliedToCard(op) ==
  /\ last.op = op
  /\ HasCard(last.before.cards, last.key)

\* the card the last operation was applied to, before and after it
CardBefore == CardAt(last.before.cards, last.key)

CardAfter == CardAt(config.cards, last.key)

\* C13: for a card present in the store, markCardStarted yields a card with
\* the given windowId, startedAt = now, column In Progress and no closedAt,
\* whatever the card's state was before (Todo, stopped, resolved in Done).
C13_StartedCard ==
  AppliedToCard("start") =>
    /\ CardAfter.windowId = last.arg
    /\ CardAfter.startedAt = last.at
    /\ CardAfter.columnId = COL_IN_PROGRESS
    /\ CardAfter.closedAt = NoTime

\* a card that was resolved (in Done, closedAt set, no window) is started
C13_Witness ==
  /\ AppliedToCard("start")
  /\ CardBefore.columnId = COL_DONE
  /\ CardBefore.closedAt # NoTime
  /\ CardBefore.windowId = undefined
  /\ CardAfter.columnId = COL_IN_PROGRESS

\* every card but the one operated on, and the columns, are as before
OthersUntouched ==
  /\ config.columns = last.before.columns
  /\ \A i \in 1..Len(last.before.cards) :
       last.before.cards[i].id # last.key => config.cards[i] = last.before.cards[i]

\* C14: markCardStarted, markCardStopped, resolveCardInConfig and
\* editCardInConfig return the identical input object, and so an unchanged
\* store, when the card id is not in the store.
C14_SameRefWhenMissing ==
  ( /\ last.op \in {"start", "stop", "resolve", "edit"}
    /\ ~HasCard(last.before.cards, last.key) )
  => last.sameRef /\ config = last.before

\* C15: markCardStopped clears the card's windowId, sets closedAt = now and
\* leaves the card in the column it was in; nothing else changes.
C15_StoppedCard ==
  AppliedToCard("stop") =>
    /\ CardAfter.windowId = undefined
    /\ CardAfter.closedAt = last.at
    /\ CardAfter.columnId = CardBefore.columnId
    /\ CardAfter = [CardBefore EXCEPT !.windowId = undefined, !.closedAt = last.at]
    /\ OthersUntouched

\* a started card in In Progress is stopped and stays in In Progress
C15_Witness ==
  /\ AppliedToCard("stop")
  /\ CardBefore.windowId \in StartedWindowIds
  /\ CardBefore.columnId = COL_IN_PROGRESS
  /\ CardAfter.columnId = COL_IN_PROGRESS
  /\ CardAfter.closedAt = last.at

\* C16: resolveCardInConfig puts the card in Done, clears its windowId and
\* sets closedAt = now, whatever state the card was in.
C16_ResolvedCard ==
  AppliedToCard("resolve") =>
    /\ CardAfter.columnId = COL_DONE
    /\ CardAfter.windowId = undefined
    /\ CardAfter.closedAt = last.at

\* a started card with a window is resolved
C16_Witness ==
  /\ AppliedToCard("resolve")
  /\ CardBefore.windowId \in StartedWindowIds
  /\ CardBefore.columnId = COL_IN_PROGRESS
  /\ CardAfter.columnId = COL_DONE
  /\ CardAfter.windowId = undefined

\* the fields of a Card an edit can name, and the others
EditableFields ==
  {"name", "description", "acceptanceCriteria", "dir", "command",
   "customCommand", "worktree", "worktreePath"}

FixedFields ==
  {"id", "columnId", "sessionName", "windowId", "createdAt", "startedAt", "closedAt"}

\* the field f is present in an edit's input
Present(fields, f) ==
  IF f = "name" THEN fields.name # undefinedStr ELSE fields[f] # undefined

\* C17 as amended: an edit writes name, description, acceptanceCriteria, dir,
\* command and worktree when the input has them and leaves them alone when it
\* has not; customCommand is written together with command (the input's
\* customCommand, or none), worktreePath together with worktree (the input's
\* worktreePath when worktree is true, none otherwise), and neither is read
\* without its lead field; nothing else changes.
C17_EditedFields ==
  AppliedToCard("edit") =>
    LET fields == last.arg
    IN  /\ \A f \in EditableFields \ {"customCommand", "worktreePath"} :
             CardAfter[f] = IF Present(fields, f) THEN fields[f] ELSE CardBefore[f]
        /\ CardAfter.customCommand =
             IF Present(fields, "command") THEN fields.customCommand
             ELSE CardBefore.customCommand
        /\ CardAfter.worktreePath =
             IF Present(fields, "worktree")
               THEN IF fields.worktree = "true" THEN fields.worktreePath ELSE undefined
               ELSE CardBefore.worktreePath
        /\ \A f \in FixedFields : CardAfter[f] = CardBefore[f]
        /\ OthersUntouched

\* an edit naming the command "custom" again on a card that has a custom
\* command line: the command line is gone, the command is as it was
C17_Witness ==
  /\ AppliedToCard("edit")
  /\ CardBefore.command = "custom"
  /\ CardBefore.customCommand = "vim"
  /\ last.arg.command = "custom"
  /\ CardAfter.command = "custom"
  /\ CardAfter.customCommand = undefined

\* C17 as stated: an edit changes only fields present in its input, except
\* that customCommand is cleared when the command is changed away from
\* "custom".
C17_OnlyPresentFields ==
  AppliedToCard("edit") =>
    /\ \A f \in EditableFields :
         CardAfter[f] # CardBefore[f] =>
           \/ Present(last.arg, f)
           \/ /\ f = "customCommand"
              /\ CardAfter.customCommand = undefined
              /\ CardBefore.command = "custom"
              /\ Present(last.arg, "command")
              /\ last.arg.command # "custom"
    /\ \A f \in FixedFields : CardAfter[f] = CardBefore[f]
    /\ OthersUntouched

\* the operations that take a store, and the one that takes the activity map
StoreOps == {"add", "start", "stop", "resolve", "edit", "move", "reconcile"}

DetectedChanges(captures) ==
  LET idx == SelectSeq([ i \in 1..Len(captures) |-> i ],
                       LAMBDA i : i = 1 \/ captures[i] # captures[i - 1])
  IN  [ k \in 1..Len(idx) |-> captures[idx[k]] ]

\* the snapshot records of the stream, in order
SnapshotsOf(stream) == SelectSeq(stream, LAMBDA rec : rec.type = "snapshot")

\* a watch under --json has begun
JsonWatch == watch.pc # "none" /\ watch.json

\* C19: the stream of `start --wait --json` begins with the one start record;
\* its snapshot records are, in order, the trimmed panes of the captures that
\* differed from the capture before; a closed record is the last record, its
\* reason is window_closed or interrupted, the watch is over once it is
\* written, and a watch that is over has written one.
C19_WatchStream ==
  JsonWatch =>
    /\ Len(out) >= 1
    /\ out[1] = StartRecord
    /\ \A i \in 2..Len(out) : out[i].type \in {"snapshot", "closed"}
    /\ \A i \in 1..Len(out) :
         out[i].type = "closed" =>
           /\ i = Len(out)
           /\ watch.pc = "done"
           /\ out[i].exitReason \in {"window_closed", "interrupted"}
    /\ watch.pc = "done" => out[Len(out)].type = "closed"
    /\ SnapshotsOf(out) =
         [ k \in 1..Len(DetectedChanges(watch.captures)) |->
             SnapshotRecord(stripTrailingBlanks(DetectedChanges(watch.captures)[k])) ]

\* a finished stream: start, two snapshots, a poll that saw no change, closed
C19_Witness ==
  /\ JsonWatch
  /\ watch.pc = "done"
  /\ Len(SnapshotsOf(out)) = 2
  /\ Len(watch.captures) = 3
  /\ out[Len(out)] = ClosedRecord("window_closed")

\* the flag is set under --json
JsonAborted == JsonWatch /\ watch.aborted

\* C20 as amended: under --json, no capture is started once the flag is set,
\* and a cancelled watch ends with a closed record: its reason is interrupted,
\* or window_closed when the flag was set during a capture and that capture
\* failed.
C20_AbortEndsWatch ==
  /\ [](watch.pc # "none" => watch.lateCaptures = 0)
  /\ JsonAborted ~>
       ( /\ watch.pc = "done"
         /\ \/ out[Len(out)] = ClosedRecord("interrupted")
            \/ /\ out[Len(out)] = ClosedRecord("window_closed")
               /\ watch.abortedIn = "capturing" )

\* the flag was set during a capture, the capture returned and was written
\* out, the sleep ended and the watch closed the stream as interrupted
C20_Witness ==
  /\ JsonAborted
  /\ watch.abortedIn = "capturing"
  /\ watch.pc = "done"
  /\ Len(watch.captures) >= 1
  /\ out[Len(out)] = ClosedRecord("interrupted")

\* C20 as stated: once the watch is cancelled it stops within one poll
\* iteration and ends with a closed record whose reason is interrupted.
C20_AbortLeadsToInterrupted ==
  JsonAborted ~> (watch.pc = "done" /\ out[Len(out)] = ClosedRecord("interrupted"))

(***************************************************************************)
(* Claims about the activity engine of the running board                   *)
(***************************************************************************)

\* C28: the panes detectChangedPanes reports in a poll are exactly the panes
\* captured in it that had a hash in the previous tick and whose current
\* hash differs from it; a pane hashed for the first time (no hash in the
\* previous tick) is never reported.
C28_ReportsChangedPanes ==
  PollRan =>
    /\ last.changed =
         { p \in DOMAIN paneHashes :
             /\ p \in DOMAIN last.prevHashes
             /\ last.prevHashes[p] # hashContent(paneContent[p]) }
    /\ \A p \in DOMAIN paneHashes \ DOMAIN last.prevHashes : p \notin last.changed

\* a poll reporting a pane whose content differs from the one hashed in the
\* previous tick
C28_Witness ==
  /\ PollRan
  /\ \E p \in last.changed : last.prevHashes[p] # paneHashes[p]

\* what C29 says of the activity map the last poll left behind: only windows
\* that changed in the tick are spinning, and every changed window other
\* than the focused one has hasActivity = true, lastChangeTime = now,
\* spinning = true
SpinningFollowsChange ==
  /\ \A w \in DOMAIN activity : activity[w].spinning => w \in ChangedThisTick
  /\ \A w \in ChangedThisTick :
        w # ActiveWindowId(tmux, SelfPaneId) =>
          activity[w] = [hasActivity |-> TRUE, lastChangeTime |-> now, spinning |-> TRUE]

\* C29 as stated: after every poll tick a window is spinning only if one of
\* its panes changed in that tick; each changed window other than the focused
\* one has hasActivity = true, lastChangeTime = now and spinning = true, and
\* every window that did not change in the tick has spinning = false.
C29_SpinningAfterEveryTick == last.op = "poll" => SpinningFollowsChange

\* C29 as amended: the same after every poll tick that found at least one
\* pane to capture (a tick that finds none returns before it touches the
\* activity map).
C29_SpinningAfterCapturingTick == PollRan => SpinningFollowsChange

\* a poll after which the changed window spins with lastChangeTime = now,
\* later than the time its entry was seeded
C29_Witness ==
  /\ PollRan
  /\ "@1" \in ChangedThisTick
  /\ activity["@1"].spinning
  /\ activity["@1"].lastChangeTime > Now0

\* C30: after every poll tick the focused window, if the activity map has an
\* entry for it, has hasActivity = false and spinning = false, even if its
\* content changed in that tick.
C30_FocusedWindowCleared ==
  last.op = "poll" =>
    LET focused == ActiveWindowId(tmux, SelfPaneId)
    IN  (Truthy(focused) /\ focused \in DOMAIN activity) =>
          ~activity[focused].hasActivity /\ ~activity[focused].spinning

\* a poll in which the content of the focused window changed: its entry has
\* the new lastChangeTime and no activity mark
C30_Witness ==
  /\ PollRan
  /\ ActiveWindowId(tmux, SelfPaneId) = "@1"
  /\ "@1" \in ChangedThisTick
  /\ activity["@1"].lastChangeTime = now
  /\ ~activity["@1"].hasActivity

\* C22: a change of a pane's content is never lost.  When a poll captures a
\* pane whose content differs from the content the board hashed at its
\* latest successful capture of that pane, however many ticks ago (ticks in
\* between returned early or failed to capture the pane), the poll records
\* the change: the window's lastChangeTime becomes now and a card in Review
\* on that window is moved to In Progress.
C22_LateChangeStillDetected ==
  PollRan =>
    \A p \in DOMAIN paneHashes \cap DOMAIN last.seen :
       last.seen[p] # paneHashes[p] =>
         LET w == PaneToWindow(tmux, SelfPaneId)[p]
         IN  /\ activity[w].lastChangeTime = now
             /\ \A i \in 1..Len(config.cards) :
                   (last.before.cards[i].windowId = w
                      /\ last.before.cards[i].columnId = COL_REVIEW)
                     => config.cards[i].columnId = COL_IN_PROGRESS

(***************************************************************************)
(* Claims about moving a card with the h / l keys                          *)
(***************************************************************************)

\* the last step was moveCard; the cursor stood on a card of the board
MoveHadCard ==
  /\ last.key.col + 1 \in 1..Len(last.cols)
  /\ last.key.row + 1 \in 1..Len(last.cols[last.key.col + 1].cards)

\* the index of the column next to the cursor's in the direction of the move
MoveTarget == IF last.arg = "left" THEN last.key.col - 1 ELSE last.key.col + 1

\* C24: moveCard returns null and changes nothing when no card is under the
\* cursor or when the column next to the cursor's in the direction of the
\* move lies outside the board; otherwise the card under the cursor (the
\* card created for an uncategorized window included) ends in exactly that
\* neighbouring column, never one further, and no other card is touched.
C24_MovesToNeighbourColumn ==
  last.op = "move" =>
    IF ~MoveHadCard \/ MoveTarget < 0 \/ MoveTarget >= Len(last.cols)
      THEN last.sameRef /\ config = last.before /\ last.input = last.before
      ELSE
        LET moved == last.cols[last.key.col + 1].cards[last.key.row + 1]
            id == IF moved.uncategorized THEN NewCardId ELSE moved.cardId
        IN  /\ ~last.sameRef
            /\ HasCard(config.cards, id)
            /\ CardAt(config.cards, id).columnId = last.cols[MoveTarget + 1].id
            /\ \A i \in 1..Len(last.before.cards) :
                  last.before.cards[i].id # id =>
                    /\ HasCard(config.cards, last.before.cards[i].id)
                    /\ CardAt(config.cards, last.before.cards[i].id) = last.before.cards[i]
            /\ last.input = last.before

\* a card moved from a middle column to its neighbour, with a column further
\* on in the same direction
C24_Witness ==
  /\ last.op = "move"
  /\ MoveHadCard
  /\ ~last.sameRef
  /\ ~last.cols[last.key.col + 1].cards[last.key.row + 1].uncategorized
  /\ MoveTarget \in 1..(Len(last.cols) - 2)

(***************************************************************************)
(* Claims about the lifecycle fields of the stored cards                   *)
(***************************************************************************)

\* C25: in every store the commands produce, a card that has closedAt set
\* and no windowId has startedAt set (it was started before it was closed);
\* so no command takes a card that has neither windowId nor closedAt
\* (unstarted) straight to closedAt set without windowId.
C25_ClosedWasStarted ==
  \A i \in 1..Len(config.cards) :
     (TruthyTime(config.cards[i].closedAt) /\ ~Truthy(config.cards[i].windowId))
       => TruthyTime(config.cards[i].startedAt)

(***************************************************************************)
(* Claims about resolving a card while tmux or git fail                    *)
(***************************************************************************)

\* the last step resolved a card and was not refused for uncommitted changes
Resolved == last.op = "resolve" /\ ~last.refused

\* the resolved card ended in Done, without windowId, closed at the time of
\* the call
EndedInDone ==
  LET card == CardAt(config.cards, last.key)
  IN  /\ card.columnId = COL_DONE
      /\ card.windowId = undefined
      /\ card.closedAt = last.at

\* C21 as stated: whichever external command fails while a card is resolved
\* (git status, kill-window, worktree removal and merge), the card ends in
\* Done with windowId cleared and closedAt set, and the failure is surfaced
\* as a warning.
C21_FailureWarnsAndResolves ==
  (Resolved /\ last.failed # {}) =>
    /\ EndedInDone
    /\ "Warning: worktree cleanup failed" \in Range(out)

\* C21 as amended: whichever external command fails, the card ends in Done
\* with windowId cleared and closedAt set, and nothing is reported as an
\* error.  A warning is written in one case only: by `tukan resolve`, when
\* the worktree removal or merge fails.  A failing kill-window or git status,
\* and every failure under the board, is swallowed without a message.
C21_FailureNeverStopsResolve ==
  Resolved =>
    /\ EndedInDone
    /\ ("Warning: worktree cleanup failed" \in Range(out))
          <=> (last.cli /\ "worktree cleanup" \in last.failed)
    /\ last.cli => out[Len(out)] = "Resolved"
    /\ ~last.cli => out = <<>>

\* `tukan resolve` of a started worktree card with git status, kill-window
\* and the worktree cleanup all failing
C21_Witness ==
  /\ Resolved
  /\ last.cli
  /\ last.failed = {"git status", "kill-window", "worktree cleanup"}
  /\ TruthyTime(CardAt(last.before.cards, last.key).startedAt)

\* C26: in every store the commands and the board produce, no two cards
\* reference the same live window id.
C26_OneCardPerLiveWindow ==
  \A i \in 1..Len(config.cards) : \A j \in 1..Len(config.cards) :
     (i # j /\ config.cards[i].windowId \in LiveWindowIds)
       => config.cards[i].windowId # config.cards[j].windowId

(***************************************************************************)
(* Claims about idle promotion over time                                   *)
(***************************************************************************)

\* C27: a card in In Progress on a live window whose panes never change is
\* eventually moved to Review (or its window closes), as long as time passes
\* and `tukan refresh` keeps being run.
C27_IdleCardReachesReview ==
  (config.cards[1].columnId = COL_IN_PROGRESS /\ "@1" \in LiveWindowIds)
    ~> (config.cards[1].columnId = COL_REVIEW \/ "@1" \notin LiveWindowIds)

(***************************************************************************)
(* Claims about the order of the steps of a tick                           *)
(***************************************************************************)

C37_OnlyClosedAtChanges ==
  last.op = "launch" =>
    /\ config.columns = last.before.columns
    /\ Len(config.cards) = Len(last.before.cards)
    /\ \A i \in 1..Len(config.cards) :
         [config.cards[i] EXCEPT !.closedAt = last.before.cards[i].closedAt]
           = last.before.cards[i]

\* C37 as the code has it: next to closedAt, which changes only on a card
\* whose window went away or came back, reconcileConfig replaces the name of
\* a card that has a live window and a name starting with "@" by the name of
\* that window; the columns and every other field are returned unchanged
C37_OnlyClosedAtAndPlaceholderNameChange ==
  last.op = "launch" =>
    /\ config.columns = last.before.columns
    /\ Len(config.cards) = Len(last.before.cards)
    /\ \A i \in 1..Len(config.cards) :
         LET b == last.before.cards[i]
             a == config.cards[i]
         IN  /\ [a EXCEPT !.closedAt = b.closedAt, !.name = b.name] = b
             /\ a.closedAt # b.closedAt =>
                   NeedsClose(b, tmux) \/ NeedsReopen(b, tmux)
             /\ a.name # b.name =>
                   /\ NeedsName(b, tmux)
                   /\ a.name = WindowNamesGet(tmux, b.windowId)

\* a launch re-opened a card and gave it the name of its window, next to a
\* second card it left alone
C37_Witness ==
  /\ last.op = "launch"
  /\ Len(config.cards) = 2
  /\ config.cards[1].closedAt # last.before.cards[1].closedAt
  /\ config.cards[1].name # last.before.cards[1].name
  /\ config.cards[2] = last.before.cards[2]

(***************************************************************************)
(* C38: a poll tick or a run of `tukan refresh` leaves the card store as   *)
(* it was but for cards moved from In Progress to Review or from Review to *)
(* In Progress: no other column is left or entered and no other field is   *)
(* modified                                                                *)
(***************************************************************************)
OnlyReviewMoves(before, after) ==
  /\ after.columns = before.columns
  /\ Len(after.cards) = Len(before.cards)
  /\ \A i \in 1..Len(after.cards) :
       LET b == before.cards[i]
           a == after.cards[i]
       IN  /\ [a EXCEPT !.columnId = b.columnId] = b
           /\ a.columnId # b.columnId =>
                 \/ b.columnId = COL_IN_PROGRESS /\ a.columnId = COL_REVIEW
                 \/ b.columnId = COL_REVIEW /\ a.columnId = COL_IN_PROGRESS

C39_CursorOnMovedCard ==
  (last.op = "move" /\ ~last.sameRef) =>
    LET moved == last.cols[last.key.col + 1].cards[last.key.row + 1]
        id == IF moved.uncategorized THEN NewCardId ELSE moved.cardId
        target == columns[last.cursor.col + 1].cards
    IN  /\ last.cursor.row = Len(last.cols[MoveTarget + 1].cards)
        /\ last.cursor.row + 1 \in 1..Len(target)
        /\ ~target[last.cursor.row + 1].uncategorized
        /\ target[last.cursor.row + 1].cardId = id

(***************************************************************************)
(* C36: `tukan start` refuses a card exactly when the card is running (its *)
(* window is live): a refusal leaves the store and the windows as they     *)
(* were; a card that is not running, also one whose window disappeared, is *)
(* accepted, gets one new window and is marked started                     *)
(***************************************************************************)
C36_StartRefusesOnlyRunning ==
  last.op = "start command" =>
    LET b == CardAt(last.before.cards, last.key)
        a == CardAt(config.cards, last.key)
    IN  IF last.refused
          THEN /\ Truthy(b.windowId)
               /\ b.windowId \in LiveWindowIds
               /\ config = last.before
          ELSE /\ Truthy(a.windowId)
               /\ a.windowId \in LiveWindowIds
               /\ a.windowId # b.windowId
               /\ a.startedAt = last.at
               /\ a.columnId = COL_IN_PROGRESS

(***************************************************************************)
(* C34: a CLI command that saves the board leaves the activity state of    *)
(* the session file as it found it: lastChangeTimes, activeWindows and     *)
(* paneHashes                                                              *)
(***************************************************************************)
C34_CliSaveKeepsActivityState ==
  last.op = "refresh" =>
    /\ ChangeTimesOf(activity) = last.lastChangeTimes
    /\ { w \in DOMAIN activity : activity[w].hasActivity } = last.activeWindows
    /\ paneHashes = last.prevHashes

(***************************************************************************)
(* C40: the pane hashes the board holds advance in the order the polls     *)
(* began: a poll never replaces the hashes stored by a poll that began     *)
(* after it                                                                *)
(***************************************************************************)
C40_HashesAdvanceInStartOrder ==
  last.op = "poll finish" => last.seq > last.prevStoredBy

(***************************************************************************)
(* C32: when a start or a resolve that waited for a command writes the     *)
(* store, no other card loses a move between In Progress and Review that   *)
(* a poll tick made during the wait                                        *)
(***************************************************************************)
C32_TickMovesSurviveUserAction ==
  (last.op \in {"start finish", "resolve finish"} /\ ~last.refused) =>
    \A j \in 1..Len(config.cards) :
      (config.cards[j].id # last.key
         /\ last.before.cards[j].columnId \in {COL_IN_PROGRESS, COL_REVIEW}
         /\ config.cards[j].columnId \in {COL_IN_PROGRESS, COL_REVIEW}) =>
        config.cards[j].columnId = last.before.cards[j].columnId

(***************************************************************************)
(* C33: once no start is waiting, no card has two live windows that were   *)
(* created for it                                                          *)
(***************************************************************************)
C33_OneWindowPerStartedCard ==
  pending.starts = <<>> =>
    \A m1 \in pending.made : \A m2 \in pending.made :
      (m1.card = m2.card /\ {m1.window, m2.window} \subseteq Range(IdsOf(tmux))) =>
        m1.window = m2.window

(***************************************************************************)
(* C35: the session state a poll tick persists holds the lastChangeTimes   *)
(* and activeWindows computed in that tick, next to that tick's paneHashes *)
(***************************************************************************)
C35_SavedStateIsOneTick ==
  (last.op = "poll finish" /\ last.saved.written) =>
    /\ last.saved.paneHashes = paneHashes
    /\ last.saved.lastChangeTimes = ChangeTimesOf(activity)
    /\ last.saved.activeWindows = { w \in DOMAIN activity : activity[w].hasActivity }

====
